---- MODULE Spec2Model ----
(***************************************************************************)
(* megashare: the streaming chunked-AEAD transfer engine.                  *)
(*                                                                         *)
(* Components modelled here                                                *)
(*   - nonce derivation           getChunkIV            (SpecNonce)        *)
(*   - block-index budget         handleUploadStart ..  (SpecLimits)       *)
(*   - BufferAccumulator          append/consume        (SpecBuffer)       *)
(*   - chunk encryptor/decryptor  processStream         (SpecCodec)        *)
(*   - FileUploader               upload/_uploadChunk   (Spec)             *)
(*                                                                         *)
(* Every specification owns its group of variables and leaves the other    *)
(* groups at their idle value.                                             *)
(***************************************************************************)
EXTENDS Integers, Sequences, FiniteSets, TLC

VARIABLES
    \* ---- nonce derivation (getChunkIV) ----
    ivBase,        \* the caller's baseIv array (12 bytes)
    ivBase0,       \* ghost: baseIv as it was generated
    ivA,           \* the derivation before the last one: [index, iv] or NoIv
    ivB,           \* the last derivation: [index, iv] or NoIv
    \* ---- BufferAccumulator ----
    chunks,        \* this.chunks: the queue of pending byte arrays
    totalLength,   \* this.totalLength
    bufAppended,   \* ghost: every byte given to append, in order
    bufReturned,   \* ghost: every byte returned by consume / consumeAll, in order
    bufAppends,    \* ghost: the number of append calls made
    bufLast,       \* ghost: [op: the last call and how it ended,
                   \*         merged: some consume so far ran the merge loop]
    \* ---- one chunk through encryptor and decryptor ----
    cxPc,          \* "encrypting" | "stored" | "decrypting" | "decrypted" | "failed"
    cxParams,      \* constructor arguments: [key, baseIv, chunkIndex, chunkSize, blockSize]
    cxPlain,       \* the chunk's plaintext (fileSlice)
    cxFilePos,     \* bytes of fileSlice.stream() read so far
    cxEnc,         \* processStream locals of the encryptor
    cxStream,      \* the stored ciphertext of the chunk (the Blob), as fetched
    cxNetPos,      \* bytes of res.body read so far
    cxDec,         \* processStream locals of the decryptor
    \* ---- the block-index budget of one accepted upload ----
    limPc,         \* "start" | "chunks" | "done" | "rejected"
    limFileSize,   \* file.size, in bytes, as a Big number
    limChunkSize,  \* serverConfig.chunkSize, in bytes, as a Big number
    limStatus,     \* the status upload-start answered with
    limTotalChunks, \* this.totalChunks
    limI,          \* the chunk loop variable of upload()
    limUse,        \* the last use of nonce indices: the block range of a chunk, or the metadata index
    \* ---- FileUploader.upload() ----
    pc,            \* where upload() stands
    upParams,      \* [fileSize: file.size, chunkSize: serverConfig.chunkSize, blockSize]
    uploadedBytes, \* this.uploadedBytes
    totalChunks,   \* this.totalChunks
    chunkNo,       \* the chunk loop variable i of upload()
    encrypted,     \* what processStream returned for chunk i: [size]
    attempt,       \* withRetry: attempt
    lastError,     \* withRetry: lastError
    bytesBeforeAttempt, \* _uploadChunk: bytesBeforeAttempt of the running attempt
    chunkUploaded, \* _uploadChunk: chunkUploaded of the running attempt
    got,           \* _uploadChunk: {uploadSpec, chunkFileId, uploadId} of the running attempt
    uploadedChunkIds, \* upload(): uploadedChunkIds
    result,        \* how the promise of upload() settled
    usedIndices,   \* ghost: the global index of every block encryption, in order
    lastReq,       \* ghost: the last encryption run or network request issued
    confirmed,     \* ghost: chunk -> chunkFileId of the completion notice answered with success
    confirmedBytes, \* ghost: ciphertext bytes of the confirmed chunks
    chunkStartBytes, \* ghost: uploadedBytes when the first attempt of the chunk began
    progressEvents \* ghost: progress events of the running transfer

VARIABLES
    \* upload tokens (signUploadPayload / verifyUploadToken)
    tkSecret,      \* config UPLOAD_SECRET of the server
    tkIssue,       \* what upload-start signed: fileId, folderId, totalChunks, token
    tkAsk,         \* the last verifyUploadToken call: fileId, token, how the token was made
    tkResult       \* what that call returned

nonceVars == <<ivBase, ivBase0, ivA, ivB>>
bufVars == <<chunks, totalLength, bufAppended, bufReturned, bufAppends, bufLast>>

codecVars == <<cxPc, cxParams, cxPlain, cxFilePos, cxEnc, cxStream, cxNetPos, cxDec>>

limVars == <<limPc, limFileSize, limChunkSize, limStatus, limTotalChunks, limI, limUse>>

upVars == <<pc, upParams, uploadedBytes, totalChunks, chunkNo, encrypted, attempt, lastError,
            bytesBeforeAttempt, chunkUploaded, got, uploadedChunkIds, result,
            usedIndices, lastReq, confirmed, confirmedBytes, chunkStartBytes,
            progressEvents>>

tokVars == <<tkSecret, tkIssue, tkAsk, tkResult>>

VARIABLES
    \* the upload endpoints of the server
    srvIssued,     \* what upload-start answered so far: fileId, folderId, totalChunks, token
    srvKv,         \* the metadata store: key -> value
    srvFirst,      \* ghost: key -> the value first stored under it
    srvLast        \* ghost: the last request, its answer, the storage calls and the
                   \* store writes made while it was handled

srvVars == <<srvIssued, srvKv, srvFirst, srvLast>>

VARIABLES
    \* the crypto worker, the bridge to it and the worker-backed stream classes
    keyCache,        \* crypto-worker.js: keyCache, as a set of [keyId, key]
    wkTasks,         \* worker: message handlers suspended at an await of crypto.subtle
    wkInbox,         \* messages posted to the worker and not yet dispatched
    wkOutbox,        \* messages posted by the worker and not yet dispatched
    messageId,       \* CryptoWorkerBridge.messageId
    pendingMessages, \* CryptoWorkerBridge.pendingMessages, as a set of [id, owner]
    wkSess,          \* slot -> the WorkerStreamEncryptor / WorkerStreamDecryptor in it
    wkKeyIds         \* how many keyIds crypto.randomUUID() handed out

wrkVars == <<keyCache, wkTasks, wkInbox, wkOutbox, messageId, pendingMessages, wkSess,
             wkKeyIds>>

VARIABLES
    \* processStream of one stream class instance
    stPc,          \* "idle" | "fetch" | "key" | "read" | "block" | "sink" | "returned" | "threw"
    stClass,       \* the class getEncryptorClass / getDecryptorClass returned
    stLocked,      \* the stream is locked to the reader processStream acquired
    stLeft,        \* bytes of the stream not yet read
    stBuffered,    \* buffer.length
    stDone,        \* done of the last read
    stIsLast,      \* isLastBlock of the block in hand
    stBlockIndex,  \* blockIndex
    stBlockSize,   \* the size of a full block as the class cuts it
    stKeyInit,     \* this.masterKeyInitialized
    stKeyCalls,    \* the key requests sent to the worker, in order
    stError        \* what processStream threw

strVars == <<stPc, stClass, stLocked, stLeft, stBuffered, stDone, stIsLast, stBlockIndex,
             stBlockSize, stKeyInit, stKeyCalls, stError>>

VARIABLES
    \* handleDownload, FileDownloader.download and _downloadChunk
    dlPc,          \* "idle" | "import" | "seek" | "fetch" | "read" | "write" | "backoff" |
                   \* "close" | "discard" | "done" | "failed"
    dlMeta,        \* metaData
    dlKey,         \* the master key imported from the link
    dlUseWorker,   \* CryptoConfig.useWorker
    dlI,           \* download(): i
    dlCumulative,  \* download(): cumulativeBytes
    dlChunkBase,   \* _downloadChunk: chunkBaseBytes
    dlChunkCum,    \* _downloadChunk: cumulativeBytes
    dlAttempt,     \* withRetry: attempt
    dlLastError,   \* withRetry: lastError
    dlBlockIndex,  \* processStream: blockIndex
    dlReceived,    \* processStream: totalReceived
    dlDownloadedBytes, \* this.downloadedBytes
    dlInHand,      \* the decrypted block given to onDecrypted
    dlSink,        \* writable: [state, data, pos]
    dlCalls,       \* ghost: the close and abort calls made on writable, in order
    dlThrown,      \* the error the inner catch block of handleDownload caught
    dlError,       \* the error the outer catch block of handleDownload shows
    dlCause,       \* ghost: what made the last attempt or step fail
    dlLog          \* ghost: the blocks decrypted and written for the running chunk,
                   \* as <<attempt, blockIndex, what>>

dlVars == <<dlPc, dlMeta, dlKey, dlUseWorker, dlI, dlCumulative, dlChunkBase, dlChunkCum,
            dlAttempt, dlLastError, dlBlockIndex, dlReceived, dlDownloadedBytes, dlInHand,
            dlSink, dlCalls, dlThrown, dlError, dlCause, dlLog>>

VARIABLES
    \* a CryptoWorkerBridge and the workers it made
    brWorker,      \* this.worker: the index of a worker in brWorkers, 0 for null
    brWorkers,     \* every Worker made: [state, inbox, readyPromise of the init() that made it]
    brReady,       \* this.ready
    brMessageId,   \* this.messageId
    brPending,     \* the keys of this.pendingMessages
    brCalls,       \* the _sendMessage calls made: [state, wait, id, to]
    brOutbox       \* messages posted by the workers and not yet dispatched

brVars == <<brWorker, brWorkers, brReady, brMessageId, brPending, brCalls, brOutbox>>

VARIABLES
    \* a BufferAccumulator of views and the buffers behind them
    xfChunks,      \* this.chunks, each a view [buf, off, len]
    xfTotal,       \* this.totalLength
    xfBufs,        \* every ArrayBuffer made: [size, detached]
    xfLast         \* ghost: the last call: the block consumed and what the bridge transferred

xfVars == <<xfChunks, xfTotal, xfBufs, xfLast>>

VARIABLES
    \* one call of withRetry or of retry
    rtFn,          \* "withRetry" | "retry"
    rtLimit,       \* retries of withRetry, maxRetries of retry
    rtDelayMs,     \* delayMs, baseDelayMs
    rtPc,          \* "idle" | "calling" | "waiting" | "returned" | "threw"
    rtI,           \* the loop variable: attempt, i
    rtLastError,   \* lastError, RtUndefined before the first catch
    rtCalls,       \* ghost: the calls of fn made
    rtWaits,       \* ghost: the delays waited, in order
    rtValue,       \* what the helper returned
    rtThrown,      \* what the helper threw
    rtAnswer       \* the status handleUploadChunkComplete answers with, 0 before

rtVars == <<rtFn, rtLimit, rtDelayMs, rtPc, rtI, rtLastError, rtCalls, rtWaits, rtValue,
            rtThrown, rtAnswer>>

VARIABLES
    \* ---- one upload: FileUploader against the upload endpoints ----
    agPc,          \* "init" | "spec" | "notify" | "backoff" | "finalize" | "done" | "rejected"
    agParams,      \* [fileSize: file.size, chunkSize: serverConfig.chunkSize], as Big numbers
    agTotalChunks, \* this.totalChunks of the uploader
    agIssued,      \* what upload-start answered with, and the folder behind the token
    agI,           \* the chunk loop variable of upload()
    agAttempt,     \* withRetry: attempt
    agChunkIds,    \* upload(): uploadedChunkIds
    agKv,          \* the metadata store
    agLast         \* the last answer of the server: [handler, status]

agVars == <<agPc, agParams, agTotalChunks, agIssued, agI, agAttempt, agChunkIds, agKv,
            agLast>>

VARIABLES
    \* ---- one run of handleGC ----
    gcPc,          \* "idle" | "request" | "scan" | "answered"
    gcConfig,      \* [expiryDays: GC_EXPIRY_DAYS as read, supportsFolderDelete]
    gcKv,          \* the metadata store: key -> the text stored
    gcStored,      \* the ids of the objects and folders in the storage backend
    gcKeys,        \* the keys of listResult not yet processed
    gcScanned,     \* scanned
    gcDeleted,     \* deleted
    gcErrors,      \* errors
    gcLog          \* ghost: what the run did to each key, in order

gcVars == <<gcPc, gcConfig, gcKv, gcStored, gcKeys, gcScanned, gcDeleted, gcErrors, gcLog>>

\* the groups after the retry helpers'
lastVars == <<agVars, gcVars>>

\* the groups after the worker's
moreVars == <<strVars, dlVars, brVars, xfVars, rtVars, lastVars>>

\* the groups after the server's
laterVars == <<wrkVars, moreVars>>

\* the groups other than the first five
restVars == <<tokVars, srvVars, laterVars>>

vars == <<nonceVars, bufVars, codecVars, limVars, upVars, restVars>>

(***************************************************************************)
(* Bytes and 32-bit words.  A uint32 is kept as its four big-endian bytes, *)
(* so that arithmetic modulo 2^32 is exact.                                *)
(***************************************************************************)
Byte == 0..255

U32(n) == <<(n \div 16777216) % 256, (n \div 65536) % 256, (n \div 256) % 256, n % 256>>

\* a + b modulo 2^32 on big-endian byte quadruples (DataView.setUint32 wraps)
AddU32(a, b) ==
    LET s4 == a[4] + b[4]
        s3 == a[3] + b[3] + (s4 \div 256)
        s2 == a[2] + b[2] + (s3 \div 256)
        s1 == a[1] + b[1] + (s2 \div 256)
    IN  <<s1 % 256, s2 % 256, s3 % 256, s4 % 256>>

\* a < b as unsigned 32-bit numbers
LessU32(a, b) ==
    \E k \in 1..4 : a[k] < b[k] /\ \A j \in 1..(k - 1) : a[j] = b[j]

\* DataView.getUint32(8, false): bytes 8..11 (0-based) of a 12-byte array
GetUint32At8(iv) == <<iv[9], iv[10], iv[11], iv[12]>>

\* DataView.setUint32(8, v, false)
SetUint32At8(iv, v) == [k \in 1..12 |-> IF k >= 9 THEN v[k - 8] ELSE iv[k]]

\* A plausible slip: only the low 16 bits of the counter are written back.
GetChunkIVLow16(baseIv, index) ==
    LET sum == AddU32(GetUint32At8(baseIv), index)
    IN  [iv     |-> [k \in 1..12 |-> IF k >= 11 THEN sum[k - 8] ELSE baseIv[k]],
         baseIv |-> baseIv]

\* getChunkIV(baseIv, index): iv is a copy of baseIv (new Uint8Array(typed
\* array) copies), its last four bytes replaced by counter + index.  The
\* result names the derived iv and the caller's array after the call.
GetChunkIV(baseIv, index) ==
    LET lastUint32 == GetUint32At8(baseIv)
    IN  [iv     |-> SetUint32At8(baseIv, AddU32(lastUint32, index)),
         baseIv |-> baseIv]

\* the reserved index of the metadata encryption, 0xffffffff
META_INDEX == <<255, 255, 255, 255>>

(***************************************************************************)
(* SpecNonce: a base nonce is generated, then nonces are derived from it.  *)
(***************************************************************************)
IvSpread == 2

NoIv == [index |-> <<>>, iv |-> <<>>]

\* indices around the byte-carry boundaries of [0, 2^32)
IvIndexSamples ==
    {U32(n) : n \in 0..IvSpread}
    \cup {U32(255 + n) : n \in 0..IvSpread}
    \cup {U32(65535 + n) : n \in 0..IvSpread}
    \cup {U32(16777215 + n) : n \in 0..IvSpread}
    \cup {U32(2147483647 - n) : n \in 0..IvSpread}
    \cup {<<128, 0, 0, n>> : n \in 0..IvSpread}
    \cup {<<255, 255, 255, 255 - n>> : n \in 0..IvSpread}

IvCounterSamples ==
    {U32(0), U32(1), U32(255), U32(65535), U32(2147483647),
     <<255, 255, 255, 0>>, <<255, 255, 255, 255>>}

IvPrefixSamples == {<<0, 0, 0, 0, 0, 0, 0, 0>>, <<17, 34, 51, 68, 85, 102, 119, 255>>}

NonceIdle == ivBase = <<>> /\ ivBase0 = <<>> /\ ivA = NoIv /\ ivB = NoIv

BufIdle ==
    /\ chunks = <<>> /\ totalLength = 0
    /\ bufAppended = <<>> /\ bufReturned = <<>> /\ bufAppends = 0 /\ bufLast = [op |-> "idle", merged |-> FALSE]

CodecIdle ==
    /\ cxPc = "idle" /\ cxParams = <<>> /\ cxPlain = <<>> /\ cxFilePos = 0
    /\ cxEnc = <<>> /\ cxStream = <<>> /\ cxNetPos = 0 /\ cxDec = <<>>

NoUse == [kind |-> "none"]

LimIdle ==
    /\ limPc = "idle" /\ limFileSize = <<>> /\ limChunkSize = <<>> /\ limStatus = 0
    /\ limTotalChunks = 0 /\ limI = 0 /\ limUse = NoUse

NoError == [step |-> "none"]
NoSpec == [uploadSpec |-> <<>>]
NoReq == [kind |-> "none"]

TokIdle == tkSecret = 0 /\ tkIssue = <<>> /\ tkAsk = <<>> /\ tkResult = <<>>

NoRequest == [handler |-> "none"]

SrvIdle == srvIssued = <<>> /\ srvKv = <<>> /\ srvFirst = <<>> /\ srvLast = NoRequest

NoSession == [pc |-> "none"]

WrkIdle ==
    /\ keyCache = {} /\ wkTasks = <<>> /\ wkInbox = <<>> /\ wkOutbox = <<>>
    /\ messageId = 0 /\ pendingMessages = {} /\ wkSess = <<>>
    /\ wkKeyIds = 0

StIdle ==
    /\ stPc = "idle" /\ stClass = "" /\ stLocked = FALSE /\ stLeft = 0
    /\ stBuffered = 0 /\ stDone = FALSE /\ stIsLast = FALSE /\ stBlockIndex = 0
    /\ stBlockSize = 0 /\ stKeyInit = FALSE /\ stKeyCalls = <<>> /\ stError = ""

DlNoError == [name |-> "", message |-> ""]
DlNoSink == [state |-> "none", data |-> <<>>, pos |-> 0]

DlIdle ==
    /\ dlPc = "idle" /\ dlMeta = <<>> /\ dlKey = 0 /\ dlUseWorker = FALSE /\ dlI = 0
    /\ dlCumulative = 0 /\ dlChunkBase = 0 /\ dlChunkCum = 0 /\ dlAttempt = 0
    /\ dlLastError = DlNoError /\ dlBlockIndex = 0 /\ dlReceived = 0
    /\ dlDownloadedBytes = 0 /\ dlInHand = <<>> /\ dlSink = DlNoSink /\ dlCalls = <<>>
    /\ dlThrown = DlNoError /\ dlError = DlNoError /\ dlCause = "" /\ dlLog = <<>>

BrIdle ==
    /\ brWorker = 0 /\ brWorkers = <<>> /\ brReady = FALSE /\ brMessageId = 0
    /\ brPending = {} /\ brCalls = <<>> /\ brOutbox = <<>>

XfIdle ==
    /\ xfChunks = <<>> /\ xfTotal = 0 /\ xfBufs = <<>>
    /\ xfLast = [op |-> "new", merged |-> FALSE, copied |-> FALSE,
                 blockData |-> <<>>, dataToTransfer |-> <<>>]

\* let lastError; before any assignment
RtUndefined == 0

RtIdle ==
    /\ rtFn = "" /\ rtLimit = 0 /\ rtDelayMs = 0 /\ rtPc = "idle" /\ rtI = 0
    /\ rtLastError = RtUndefined /\ rtCalls = 0 /\ rtWaits = <<>> /\ rtValue = 0
    /\ rtThrown = RtUndefined /\ rtAnswer = 0

AgIdle ==
    /\ agPc = "idle" /\ agParams = <<>> /\ agTotalChunks = 0 /\ agIssued = <<>> /\ agI = 0
    /\ agAttempt = 0 /\ agChunkIds = <<>> /\ agKv = <<>> /\ agLast = NoRequest

GcIdle ==
    /\ gcPc = "idle" /\ gcConfig = <<>> /\ gcKv = <<>> /\ gcStored = {} /\ gcKeys = <<>>
    /\ gcScanned = 0 /\ gcDeleted = 0 /\ gcErrors = <<>> /\ gcLog = <<>>

LastIdle == AgIdle /\ GcIdle

MoreIdle == StIdle /\ DlIdle /\ BrIdle /\ XfIdle /\ RtIdle /\ LastIdle

LaterIdle == WrkIdle /\ MoreIdle

RestIdle == TokIdle /\ SrvIdle /\ LaterIdle

UpIdle ==
    /\ pc = "idle" /\ upParams = <<>> /\ uploadedBytes = 0 /\ totalChunks = 0 /\ chunkNo = 0
    /\ encrypted = <<>> /\ attempt = 0 /\ lastError = NoError /\ bytesBeforeAttempt = 0
    /\ chunkUploaded = 0 /\ got = NoSpec /\ uploadedChunkIds = <<>>
    /\ result = [kind |-> "pending"] /\ usedIndices = <<>> /\ lastReq = NoReq
    /\ confirmed = <<>> /\ confirmedBytes = 0 /\ chunkStartBytes = 0 /\ progressEvents = 0

\* window.crypto.getRandomValues(new Uint8Array(12))
NonceInit ==
    /\ ivBase \in {p \o c : p \in IvPrefixSamples, c \in IvCounterSamples}
    /\ ivBase0 = ivBase
    /\ ivA = NoIv
    /\ ivB = NoIv
    /\ BufIdle
    /\ CodecIdle
    /\ LimIdle
    /\ UpIdle
    /\ RestIdle

DeriveIV(index) ==
    LET r == GetChunkIV(ivBase, index)
    IN  /\ ivA' = ivB
        /\ ivB' = [index |-> index, iv |-> r.iv]
        /\ ivBase' = r.baseIv
        /\ UNCHANGED <<ivBase0, bufVars, codecVars, limVars, upVars, restVars>>

NonceNext == \E index \in IvIndexSamples : DeriveIV(index)

SpecNonce == NonceInit /\ [][NonceNext]_vars

\* C2: two derivations from one base nonce with different indices give
\* different nonces; the first 8 bytes of every derived nonce are those of
\* the base nonce; the base nonce array is left as it was.
NonceInjective ==
    /\ (ivA # NoIv /\ ivB # NoIv /\ ivA.index # ivB.index) => ivA.iv # ivB.iv
    /\ ivB # NoIv =>
          /\ Len(ivB.iv) = 12
          /\ \A k \in 1..8 : ivB.iv[k] = ivBase0[k]
          /\ GetUint32At8(ivB.iv) = AddU32(GetUint32At8(ivBase0), ivB.index)
    /\ ivBase = ivBase0

\* two derivations whose sum wraps past 2^32 on one side only
NonceWitness ==
    /\ ivA # NoIv /\ ivB # NoIv
    /\ ivA.index = <<255, 255, 255, 255>>
    /\ ivB.index = U32(65536)
    /\ GetUint32At8(ivBase0) = U32(1)
    /\ ivA.iv # ivB.iv

(***************************************************************************)
(* BufferAccumulator: a queue of byte arrays with exact-size consumes.     *)
(* A buffer value is [chunks, totalLength]; a call returns the buffer      *)
(* after it, the bytes it returned, and whether it threw.                  *)
(***************************************************************************)
RECURSIVE Flatten(_)
Flatten(ss) == IF ss = <<>> THEN <<>> ELSE Head(ss) \o Flatten(Tail(ss))

Min(a, b) == IF a <= b THEN a ELSE b

Zeros(n) == [k \in 1..n |-> 0]

\* new BufferAccumulator()
NewBuffer == [chunks |-> <<>>, totalLength |-> 0]

\* append(chunk)
BufAppend(b, chunk) ==
    [chunks |-> Append(b.chunks, chunk), totalLength |-> b.totalLength + Len(chunk)]

\* A plausible slip in the merge loop: a partly taken chunk is left whole.
RECURSIVE ConsumeLoopNoTrim(_, _, _)
ConsumeLoopNoTrim(cs, remaining, acc) ==
    IF remaining > 0 /\ Len(cs) > 0
    THEN LET chunk == cs[1]
             take == Min(Len(chunk), remaining)
         IN  ConsumeLoopNoTrim(IF take = Len(chunk) THEN Tail(cs) ELSE Tail(cs),
                               remaining - take,
                               acc \o SubSeq(chunk, 1, take))
    ELSE [chunks |-> cs, result |-> acc \o Zeros(remaining)]

\* consume(size), the merge loop: copy from the head of the queue until
\* size bytes are gathered (result starts as size zero bytes)
RECURSIVE ConsumeLoop(_, _, _)
ConsumeLoop(cs, remaining, acc) ==
    IF remaining > 0 /\ Len(cs) > 0
    THEN LET chunk == cs[1]
             take == Min(Len(chunk), remaining)
         IN  ConsumeLoop(IF take = Len(chunk)
                            THEN Tail(cs)
                            ELSE <<SubSeq(chunk, take + 1, Len(chunk))>> \o Tail(cs),
                         remaining - take,
                         acc \o SubSeq(chunk, 1, take))
    ELSE [chunks |-> cs, result |-> acc \o Zeros(remaining)]

\* A plausible slip: a request for more than is pending hands out what is there.
BufConsumeClamps(b, size) ==
    LET n == Min(size, b.totalLength)
    IN  [buf |-> [chunks |-> ConsumeLoop(b.chunks, n, <<>>).chunks,
                  totalLength |-> b.totalLength - n],
         result |-> ConsumeLoop(b.chunks, n, <<>>).result,
         threw |-> FALSE, merged |-> TRUE]

\* consume(size)
BufConsume(b, size) ==
    IF size > b.totalLength
    THEN [buf |-> b, result |-> <<>>, threw |-> TRUE, merged |-> FALSE]
    ELSE IF Len(b.chunks) > 0 /\ Len(b.chunks[1]) >= size
    THEN LET first == b.chunks[1]
         IN  [buf |-> [chunks |-> IF Len(first) = size
                                     THEN Tail(b.chunks)
                                     ELSE <<SubSeq(first, size + 1, Len(first))>>
                                          \o Tail(b.chunks),
                       totalLength |-> b.totalLength - size],
              result |-> SubSeq(first, 1, size),
              threw |-> FALSE, merged |-> FALSE]
    ELSE LET m == ConsumeLoop(b.chunks, size, <<>>)
         IN  [buf |-> [chunks |-> m.chunks, totalLength |-> b.totalLength - size],
              result |-> m.result,
              threw |-> FALSE, merged |-> TRUE]

\* consumeAll()
BufConsumeAll(b) ==
    IF b.totalLength = 0
    THEN [buf |-> b, result |-> <<>>, threw |-> FALSE]
    ELSE IF Len(b.chunks) = 1
    THEN [buf |-> NewBuffer, result |-> b.chunks[1], threw |-> FALSE]
    ELSE [buf |-> NewBuffer, result |-> Flatten(b.chunks), threw |-> FALSE]

(***************************************************************************)
(* SpecBuffer: any interleaving of append, consume and consumeAll on one   *)
(* accumulator.  The k-th appended byte carries the value k, so that a     *)
(* byte lost, repeated or moved shows.                                     *)
(***************************************************************************)
MaxBufBytes == 5
MaxAppendLen == 3
MaxAppends == 3

BufInit ==
    /\ chunks = NewBuffer.chunks
    /\ totalLength = NewBuffer.totalLength
    /\ bufAppended = <<>>
    /\ bufReturned = <<>>
    /\ bufAppends = 0
    /\ bufLast = [op |-> "new", merged |-> FALSE]
    /\ NonceIdle
    /\ CodecIdle
    /\ LimIdle
    /\ UpIdle
    /\ RestIdle

ThisBuffer == [chunks |-> chunks, totalLength |-> totalLength]

BufDoAppend(n) ==
    /\ Len(bufAppended) + n <= MaxBufBytes
    /\ bufAppends < MaxAppends
    /\ bufAppends' = bufAppends + 1
    /\ LET chunk == [k \in 1..n |-> (Len(bufAppended) + k) % 256]
           b == BufAppend(ThisBuffer, chunk)
       IN  /\ chunks' = b.chunks
           /\ totalLength' = b.totalLength
           /\ bufAppended' = bufAppended \o chunk
    /\ bufLast' = [bufLast EXCEPT !.op = "append"]
    /\ UNCHANGED <<bufReturned, nonceVars, codecVars, limVars, upVars, restVars>>

BufDoConsume(n) ==
    /\ LET r == BufConsume(ThisBuffer, n)
       IN  /\ chunks' = r.buf.chunks
           /\ totalLength' = r.buf.totalLength
           /\ bufReturned' = bufReturned \o r.result
           /\ bufLast' = [op |-> IF r.threw THEN "consume threw" ELSE "consume",
                          merged |-> bufLast.merged \/ r.merged]
    /\ UNCHANGED <<bufAppended, bufAppends, nonceVars, codecVars, limVars, upVars, restVars>>

BufDoConsumeAll ==
    /\ LET r == BufConsumeAll(ThisBuffer)
       IN  /\ chunks' = r.buf.chunks
           /\ totalLength' = r.buf.totalLength
           /\ bufReturned' = bufReturned \o r.result
    /\ bufLast' = [bufLast EXCEPT !.op = "consumeAll"]
    /\ UNCHANGED <<bufAppended, bufAppends, nonceVars, codecVars, limVars, upVars, restVars>>

BufNext ==
    \/ \E n \in 0..MaxAppendLen : BufDoAppend(n)
    \/ \E n \in 0..(MaxBufBytes + 1) : BufDoConsume(n)
    \/ BufDoConsumeAll

SpecBuffer == BufInit /\ [][BufNext]_vars

IsPrefix(s, t) == Len(s) <= Len(t) /\ SubSeq(t, 1, Len(s)) = s

\* C5: the bytes returned so far are the first bytes appended, in order;
\* length is bytes appended minus bytes returned; after a consumeAll the
\* returned bytes are exactly the appended bytes.
BufferReconstructs ==
    /\ IsPrefix(bufReturned, bufAppended)
    /\ totalLength = Len(bufAppended) - Len(bufReturned)
    /\ bufLast.op = "consumeAll" => bufReturned = bufAppended

\* several appends, consumes in between, then the final consumeAll
BufferWitness ==
    /\ bufLast = [op |-> "consumeAll", merged |-> TRUE]
    /\ bufAppends >= 3
    /\ Len(bufAppended) >= 5
    /\ bufReturned = bufAppended
    /\ chunks = <<>>

(***************************************************************************)
(* AES-GCM as the block codec uses it: a stream cipher keyed by            *)
(* (key, iv) followed by a 16-byte tag over (key, iv, ciphertext).         *)
(* Decryption recomputes the tag and fails on a mismatch.                  *)
(***************************************************************************)
TAG_LENGTH == 16

RECURSIVE SumSeq(_)
SumSeq(q) == IF q = <<>> THEN 0 ELSE Head(q) + SumSeq(Tail(q))

\* the keystream seed of (key, iv)
GcmSeed(key, iv) == (SumSeq(iv) + 101 * key) % 256

GcmTag(key, iv, c) ==
    [j \in 1..TAG_LENGTH |-> (SumSeq(c) + 3 * GcmSeed(key, iv) + 7 * Len(c) + j) % 256]

\* crypto.subtle.encrypt({name: "AES-GCM", iv}, key, data)
AesGcmEncrypt(key, iv, data) ==
    LET c == [k \in 1..Len(data) |-> (data[k] + GcmSeed(key, iv) + k) % 256]
    IN  c \o GcmTag(key, iv, c)

\* crypto.subtle.decrypt({name: "AES-GCM", iv}, key, data): [ok, data]
AesGcmDecrypt(key, iv, data) ==
    IF Len(data) < TAG_LENGTH
    THEN [ok |-> FALSE, data |-> <<>>]
    ELSE LET n == Len(data) - TAG_LENGTH
             c == SubSeq(data, 1, n)
             t == SubSeq(data, n + 1, Len(data))
         IN  IF t # GcmTag(key, iv, c)
             THEN [ok |-> FALSE, data |-> <<>>]
             ELSE [ok |-> TRUE,
                   data |-> [k \in 1..n |-> (c[k] - GcmSeed(key, iv) - k) % 256]]

\* encryptBlock(blockData, masterKey, baseIv, globalIndex)
EncryptBlock(blockData, masterKey, baseIv, globalIndex) ==
    AesGcmEncrypt(masterKey, GetChunkIV(baseIv, U32(globalIndex)).iv, blockData)

\* decryptBlock(blockData, masterKey, baseIv, globalIndex)
DecryptBlock(blockData, masterKey, baseIv, globalIndex) ==
    AesGcmDecrypt(masterKey, GetChunkIV(baseIv, U32(globalIndex)).iv, blockData)

(***************************************************************************)
(* WorkerStreamEncryptor / WorkerStreamDecryptor (and the main-thread      *)
(* StreamEncryptor / StreamDecryptor, which run the same loop).            *)
(***************************************************************************)
CeilDiv(a, b) == (a + b - 1) \div b

\* A plausible slip: the block count of a chunk rounded down.
BlocksPerChunkFloor(chunkSize, blockSize) == chunkSize \div blockSize

\* this.blocksPerChunk = Math.ceil(chunkSize / blockSize)
BlocksPerChunk(chunkSize, blockSize) == CeilDiv(chunkSize, blockSize)

\* this.globalBlockOffset = chunkIndex * this.blocksPerChunk
GlobalBlockOffset(p) == p.chunkIndex * BlocksPerChunk(p.chunkSize, p.blockSize)

\* A plausible slip: the decryptor cuts the stream at the plaintext block size.
EncryptedBlockSizeNoTag(blockSize) == blockSize

\* this.encryptedBlockSizeWithTag = blockSize + 16
EncryptedBlockSizeWithTag(blockSize) == blockSize + TAG_LENGTH

\* the locals of processStream before the first read
NewEncryptor ==
    [buffer |-> NewBuffer, blockIndex |-> 0, totalRead |-> 0,
     totalEncryptedSize |-> 0, encryptedBlocks |-> <<>>, indices |-> <<>>]

\* A plausible slip: only whole blocks are taken, so what is left at the end
\* of the stream is never encrypted.
EncLoopGoesOnWholeOnly(length, done, blockSize) == length >= blockSize

\* while (buffer.length >= this.blockSize || (done && buffer.length > 0))
EncLoopGoesOn(length, done, blockSize) == length >= blockSize \/ (done /\ length > 0)

\* the block loop of the encryptor after one reader.read()
RECURSIVE EncBlocks(_, _, _)
EncBlocks(es, done, p) ==
    IF EncLoopGoesOn(es.buffer.totalLength, done, p.blockSize)
    THEN LET isLastBlock == done /\ es.buffer.totalLength < p.blockSize
             r == IF isLastBlock THEN BufConsumeAll(es.buffer)
                                 ELSE BufConsume(es.buffer, p.blockSize)
             globalIndex == GlobalBlockOffset(p) + es.blockIndex
             encryptedBlock == EncryptBlock(r.result, p.key, p.baseIv, globalIndex)
             es2 == [es EXCEPT !.buffer = r.buf,
                               !.totalEncryptedSize = @ + Len(encryptedBlock),
                               !.encryptedBlocks = Append(@, encryptedBlock),
                               !.indices = Append(@, globalIndex),
                               !.blockIndex = @ + 1]
         IN  IF isLastBlock THEN es2 ELSE EncBlocks(es2, done, p)
    ELSE es

\* one pass of the encryptor's read loop: {done, value} = await reader.read()
EncIteration(es, value, done, p) ==
    LET es1 == IF done THEN es
               ELSE [es EXCEPT !.totalRead = @ + Len(value),
                               !.buffer = BufAppend(@, value)]
    IN  EncBlocks(es1, done, p)

\* the locals of the decryptor's processStream before the first read
NewDecryptor ==
    [buffer |-> NewBuffer, blockIndex |-> 0, totalReceived |-> 0,
     delivered |-> <<>>, indices |-> <<>>, failed |-> FALSE]

\* the block loop of the decryptor after one reader.read(); a failed
\* decryptBlock throws out of processStream
RECURSIVE DecBlocks(_, _, _)
DecBlocks(ds, done, p) ==
    LET size == EncryptedBlockSizeWithTag(p.blockSize)
    IN  IF ds.buffer.totalLength >= size \/ (done /\ ds.buffer.totalLength > 0)
        THEN LET isLastBlock == done /\ ds.buffer.totalLength < size
                 r == IF isLastBlock THEN BufConsumeAll(ds.buffer)
                                     ELSE BufConsume(ds.buffer, size)
                 globalIndex == GlobalBlockOffset(p) + ds.blockIndex
                 decrypted == DecryptBlock(r.result, p.key, p.baseIv, globalIndex)
             IN  IF ~decrypted.ok
                 THEN [ds EXCEPT !.buffer = r.buf, !.failed = TRUE,
                                 !.indices = Append(@, globalIndex)]
                 ELSE LET ds2 == [ds EXCEPT !.buffer = r.buf,
                                            !.delivered = Append(@, decrypted.data),
                                            !.indices = Append(@, globalIndex),
                                            !.blockIndex = @ + 1]
                      IN  IF isLastBlock THEN ds2 ELSE DecBlocks(ds2, done, p)
        ELSE ds

\* one pass of the decryptor's read loop
DecIteration(ds, value, done, p) ==
    LET ds1 == IF done THEN ds
               ELSE [ds EXCEPT !.totalReceived = @ + Len(value),
                               !.buffer = BufAppend(@, value)]
    IN  DecBlocks(ds1, done, p)

(***************************************************************************)
(* SpecCodec: one chunk is encrypted from a file stream read in pieces of  *)
(* any size, stored, and decrypted from a response stream read in pieces   *)
(* of other sizes.                                                         *)
(***************************************************************************)
MaxCodecChunkSize == 4
MaxCodecBlockSize == 2
MaxCodecChunkIndex == 1

CodecBaseIvs == {<<0, 0, 0, 0, 0, 0, 0, 0, 0, 0, 0, 0>>,
                 <<9, 8, 7, 6, 5, 4, 3, 2, 255, 255, 255, 254>>}

\* the sizes of the pieces the response body arrives in
NetReadSizes(blockSize) ==
    LET size == blockSize + TAG_LENGTH
    IN  {1, TAG_LENGTH, size - 1, size, size + 1, 2 * size}

CodecInit ==
    /\ cxPc = "encrypting"
    /\ \E chunkSize \in 1..MaxCodecChunkSize, blockSize \in 1..MaxCodecBlockSize,
          chunkIndex \in 0..MaxCodecChunkIndex, baseIv \in CodecBaseIvs, len \in 0..MaxCodecChunkSize :
          /\ len <= chunkSize
          /\ cxParams = [key |-> 1, baseIv |-> baseIv, chunkIndex |-> chunkIndex,
                         chunkSize |-> chunkSize, blockSize |-> blockSize]
          /\ cxPlain = [k \in 1..len |-> (40 + 3 * k) % 256]
    /\ cxFilePos = 0
    /\ cxEnc = NewEncryptor
    /\ cxStream = <<>>
    /\ cxNetPos = 0
    /\ cxDec = <<>>
    /\ NonceIdle
    /\ BufIdle
    /\ LimIdle
    /\ UpIdle
    /\ RestIdle

\* the encryptor reads the next n bytes of the slice
CxEncRead(n) ==
    /\ cxPc = "encrypting"
    /\ cxFilePos + n <= Len(cxPlain)
    /\ cxEnc' = EncIteration(cxEnc, SubSeq(cxPlain, cxFilePos + 1, cxFilePos + n),
                             FALSE, cxParams)
    /\ cxFilePos' = cxFilePos + n
    /\ UNCHANGED <<cxPc, cxParams, cxPlain, cxStream, cxNetPos, cxDec>>
    /\ UNCHANGED <<nonceVars, bufVars, limVars, upVars, restVars>>

\* the slice's stream ends: the last block is encrypted and the Blob of
\* the encrypted blocks is returned and stored
CxEncDone ==
    /\ cxPc = "encrypting"
    /\ cxFilePos = Len(cxPlain)
    /\ cxEnc' = EncIteration(cxEnc, <<>>, TRUE, cxParams)
    /\ cxStream' = Flatten(cxEnc'.encryptedBlocks)
    /\ cxPc' = "stored"
    /\ UNCHANGED <<cxParams, cxPlain, cxFilePos, cxNetPos, cxDec>>
    /\ UNCHANGED <<nonceVars, bufVars, limVars, upVars, restVars>>

\* new DecryptorClass(...) with the same arguments; fetch(url) answers ok
CxFetch ==
    /\ cxPc = "stored"
    /\ cxDec' = NewDecryptor
    /\ cxPc' = "decrypting"
    /\ UNCHANGED <<cxParams, cxPlain, cxFilePos, cxEnc, cxStream, cxNetPos>>
    /\ UNCHANGED <<nonceVars, bufVars, limVars, upVars, restVars>>

\* the decryptor reads the next n bytes of the response body
CxDecRead(n) ==
    /\ cxPc = "decrypting"
    /\ cxNetPos + n <= Len(cxStream)
    /\ cxDec' = DecIteration(cxDec, SubSeq(cxStream, cxNetPos + 1, cxNetPos + n),
                             FALSE, cxParams)
    /\ cxNetPos' = cxNetPos + n
    /\ cxPc' = IF cxDec'.failed THEN "failed" ELSE "decrypting"
    /\ UNCHANGED <<cxParams, cxPlain, cxFilePos, cxEnc, cxStream>>
    /\ UNCHANGED <<nonceVars, bufVars, limVars, upVars, restVars>>

\* the response body ends
CxDecDone ==
    /\ cxPc = "decrypting"
    /\ cxNetPos = Len(cxStream)
    /\ cxDec' = DecIteration(cxDec, <<>>, TRUE, cxParams)
    /\ cxPc' = IF cxDec'.failed THEN "failed" ELSE "decrypted"
    /\ UNCHANGED <<cxParams, cxPlain, cxFilePos, cxEnc, cxStream, cxNetPos>>
    /\ UNCHANGED <<nonceVars, bufVars, limVars, upVars, restVars>>

CodecNext ==
    \/ \E n \in 1..MaxCodecChunkSize : CxEncRead(n)
    \/ CxEncDone
    \/ CxFetch
    \/ \E n \in NetReadSizes(cxParams.blockSize) : CxDecRead(n)
    \/ CxDecDone

SpecCodec == CodecInit /\ [][CodecNext]_vars

\* C4: on an untouched ciphertext the decryptor never fails; when it has
\* finished it has seen as many blocks as the encryptor produced, has
\* decrypted the k-th block at the global index the encryptor used for it,
\* and the plaintext it delivered, concatenated, is the chunk's plaintext.
ChunkRoundTrip ==
    /\ cxPc # "failed"
    /\ cxPc \in {"decrypting", "decrypted"} =>
          /\ cxDec.indices = SubSeq(cxEnc.indices, 1, Len(cxDec.indices))
          /\ IsPrefix(Flatten(cxDec.delivered), cxPlain)
    /\ cxPc = "decrypted" =>
          /\ Len(cxDec.delivered) = Len(cxEnc.encryptedBlocks)
          /\ cxDec.indices = cxEnc.indices
          /\ Flatten(cxDec.delivered) = cxPlain

\* a chunk of two full blocks and a shorter last one, not the first chunk
\* of its file, decrypted to the end
ChunkRoundTripWitness ==
    /\ cxPc = "decrypted"
    /\ cxParams.chunkIndex = 1
    /\ cxParams.blockSize = 2
    /\ Len(cxPlain) = 3
    /\ Len(cxDec.delivered) = 2
    /\ cxDec.indices = <<2, 3>>
    /\ Len(cxStream) = 3 + 2 * TAG_LENGTH

\* the plaintext the k-th encrypted block of the encryptor carries
CxCarried(k) ==
    DecryptBlock(cxEnc.encryptedBlocks[k], cxParams.key, cxParams.baseIv, cxEnc.indices[k])

\* C33: for a chunk plaintext of length L > 0 and block size B the encryptor
\* produces, however the reads cut the input, exactly ceil(L / B) blocks;
\* every block but the last carries B plaintext bytes and the last the
\* remaining L - B * (ceil(L / B) - 1); the block indices are 0, 1, 2, ...
\* without gaps; the returned size is L + 16 * ceil(L / B).  While the
\* stream is read, the blocks made so far are whole ones in that order.
EncryptorBlockCount ==
    LET L == Len(cxPlain)
        B == cxParams.blockSize
        made == Len(cxEnc.encryptedBlocks)
        finished == cxPc # "encrypting"
    IN  /\ cxEnc.blockIndex = made
        /\ \A k \in 1..made :
              /\ cxEnc.indices[k] = GlobalBlockOffset(cxParams) + (k - 1)
              /\ CxCarried(k).ok
              /\ (k < made \/ ~finished) =>
                    CxCarried(k).data = SubSeq(cxPlain, B * (k - 1) + 1, B * k)
        /\ ~finished => made = cxFilePos \div B
        /\ (finished /\ L > 0) =>
              /\ made = CeilDiv(L, B)
              /\ CxCarried(made).data = SubSeq(cxPlain, B * (made - 1) + 1, L)
              /\ Len(CxCarried(made).data) = L - B * (CeilDiv(L, B) - 1)
              /\ cxEnc.totalEncryptedSize = L + 16 * CeilDiv(L, B)
              /\ Len(cxStream) = cxEnc.totalEncryptedSize

\* three bytes in blocks of two: a whole block and a last one of one byte
EncryptorBlockCountWitness ==
    /\ cxPc = "stored"
    /\ Len(cxPlain) = 3
    /\ cxParams.blockSize = 2
    /\ cxParams.chunkIndex = 1
    /\ Len(cxEnc.encryptedBlocks) = 2
    /\ Len(cxEnc.encryptedBlocks[1]) = 2 + TAG_LENGTH
    /\ Len(cxEnc.encryptedBlocks[2]) = 1 + TAG_LENGTH
    /\ cxEnc.totalEncryptedSize = 35

(***************************************************************************)
(* The block-index budget.  Byte counts of real files exceed 2^31, so a    *)
(* size or index is kept as a Big number [hi, lo] = hi * 2^20 + lo with    *)
(* 0 <= lo < 2^20; 2^20 is also the encryption block size, so hi counts    *)
(* whole blocks.  Chunk sizes are whole multiples of the block size.       *)
(***************************************************************************)
ENCRYPTION_BLOCK_SIZE == 1048576

Big(hi, lo) == [hi |-> hi, lo |-> lo]

BigLess(a, b) == a.hi < b.hi \/ (a.hi = b.hi /\ a.lo < b.lo)

BigLeq(a, b) == a = b \/ BigLess(a, b)

BigOfU32(w) == Big(w[1] * 16 + (w[2] \div 16), (w[2] % 16) * 65536 + w[3] * 256 + w[4])

\* MAX_FILE_SIZE = 20 * 1024 * 1024 * 1024
MAX_FILE_SIZE == Big(20 * 1024, 0)

\* CHUNK_SIZE: 10 MiB in functions/utils.js, 128 MiB as the configured default
ChunkSizeChoices == {Big(10, 0), Big(128, 0)}

\* Math.ceil(size / chunkSize) for a chunk size of whole blocks
BigCeilDiv(size, chunkSize) ==
    (size.hi \div chunkSize.hi)
    + (IF size.hi % chunkSize.hi > 0 \/ size.lo > 0 THEN 1 ELSE 0)

\* handleUploadStart: the status it answers a fileSize with
UploadStartStatus(fileSize) ==
    IF BigLeq(fileSize, Big(0, 0)) THEN 400
    ELSE IF BigLess(MAX_FILE_SIZE, fileSize) THEN 413
    ELSE 200

\* file.slice(i * chunkSize, Math.min(i * chunkSize + chunkSize, file.size)).size
BigSliceSize(fileSize, chunkSize, i) ==
    IF BigLeq(Big((i + 1) * chunkSize.hi, 0), fileSize)
    THEN chunkSize
    ELSE Big(fileSize.hi - i * chunkSize.hi, fileSize.lo)

\* the number of blocks processStream cuts a slice into: full blocks and a
\* shorter last one
BigBlockCount(sliceSize) == sliceSize.hi + (IF sliceSize.lo > 0 THEN 1 ELSE 0)

\* A plausible slip: the offset of a chunk counted in bytes, not in blocks.
LimGlobalBlockOffsetBytes(chunkIndex, chunkSize) == Big(chunkIndex * chunkSize.hi, 0)

\* globalBlockOffset = chunkIndex * Math.ceil(chunkSize / blockSize)
LimGlobalBlockOffset(chunkIndex, chunkSize) ==
    LET n == chunkIndex * BigBlockCount(chunkSize)
    IN  Big(n \div ENCRYPTION_BLOCK_SIZE, n % ENCRYPTION_BLOCK_SIZE)

\* a + n for a small n >= 0
BigPlus(a, n) ==
    Big(a.hi + ((a.lo + n) \div ENCRYPTION_BLOCK_SIZE), (a.lo + n) % ENCRYPTION_BLOCK_SIZE)

(***************************************************************************)
(* SpecLimits: a file of a size around the limits is offered to            *)
(* upload-start; if accepted, its chunks are encrypted in order and then   *)
(* the metadata.                                                           *)
(***************************************************************************)
LimSpread == 1

LimFileSizes ==
    {Big(hi, lo) :
        hi \in {h \in UNION {(c - LimSpread)..(c + LimSpread) : c \in {0, 10, 128, 20 * 1024}} : h >= 0},
        lo \in {0, 1, ENCRYPTION_BLOCK_SIZE - 1}}

LimInit ==
    /\ limPc = "start"
    /\ limFileSize \in LimFileSizes
    /\ limChunkSize \in ChunkSizeChoices
    /\ limStatus = 0
    /\ limTotalChunks = 0
    /\ limI = 0
    /\ limUse = NoUse
    /\ NonceIdle
    /\ BufIdle
    /\ CodecIdle
    /\ UpIdle
    /\ RestIdle

\* new FileUploader(file, serverConfig); _initUpload()
LimUploadStart ==
    /\ limPc = "start"
    /\ limStatus' = UploadStartStatus(limFileSize)
    /\ limPc' = IF limStatus' = 200 THEN "chunks" ELSE "rejected"
    /\ limTotalChunks' = BigCeilDiv(limFileSize, limChunkSize)
    /\ UNCHANGED <<limFileSize, limChunkSize, limI, limUse>>
    /\ UNCHANGED <<nonceVars, bufVars, codecVars, upVars, restVars>>

\* one pass of the chunk loop: the blocks of chunk i are encrypted at
\* globalBlockOffset + 0 .. globalBlockOffset + (blocks - 1)
LimEncryptChunk ==
    /\ limPc = "chunks"
    /\ limI < limTotalChunks
    /\ LET offset == LimGlobalBlockOffset(limI, limChunkSize)
           blocks == BigBlockCount(BigSliceSize(limFileSize, limChunkSize, limI))
       IN  limUse' = [kind |-> "blocks", chunk |-> limI,
                      first |-> offset, last |-> BigPlus(offset, blocks - 1)]
    /\ limI' = limI + 1
    /\ UNCHANGED <<limPc, limFileSize, limChunkSize, limStatus, limTotalChunks>>
    /\ UNCHANGED <<nonceVars, bufVars, codecVars, upVars, restVars>>

\* encryptSensitiveMeta after the last chunk
LimEncryptMeta ==
    /\ limPc = "chunks"
    /\ limI = limTotalChunks
    /\ limUse' = [kind |-> "meta", index |-> BigOfU32(META_INDEX)]
    /\ limPc' = "done"
    /\ UNCHANGED <<limFileSize, limChunkSize, limStatus, limTotalChunks, limI>>
    /\ UNCHANGED <<nonceVars, bufVars, codecVars, upVars, restVars>>

LimNext == LimUploadStart \/ LimEncryptChunk \/ LimEncryptMeta

SpecLimits == LimInit /\ [][LimNext]_vars

\* 0xFFFFFFFF = 4095 * 2^20 + (2^20 - 1)
Sentinel == Big(4095, 1048575)

\* C3: in an accepted upload every block index is below 0xFFFFFFFF, and
\* the index 0xFFFFFFFF is used by the metadata encryption and by nothing
\* else.
BlockIndexBelowSentinel ==
    /\ limUse.kind = "blocks" =>
          /\ limStatus = 200
          /\ BigLeq(limUse.first, limUse.last)
          /\ BigLess(limUse.last, Sentinel)
    /\ limUse.kind = "meta" => limUse.index = Sentinel

\* the last chunk of a file of exactly the maximum size, in 10 MiB chunks
BlockIndexWitness ==
    /\ limUse.kind = "blocks"
    /\ limFileSize = MAX_FILE_SIZE
    /\ limChunkSize = Big(10, 0)
    /\ limUse.chunk = 2047
    /\ limUse.last = Big(0, 20479)

(***************************************************************************)
(* FileUploader: upload(), _uploadChunk() and withRetry().                 *)
(***************************************************************************)
MaxFileSize == 4
MaxChunkSize == 3
MaxBlockSize == 2
\* withRetry is called with its default of MAX_RETRIES = 8 retries; the model
\* runs it with fewer
MaxRetries == 2
MaxProgressEvents == 1
FormDataOverhead == 1

UpKey == 1
UpBaseIv == <<9, 8, 7, 6, 5, 4, 3, 2, 0, 0, 0, 250>>

\* the reads a stream of n bytes can arrive in
RECURSIVE Compositions(_)
Compositions(n) ==
    IF n = 0 THEN {<<>>}
    ELSE UNION {{<<k>> \o c : c \in Compositions(n - k)} : k \in 1..n}

\* processStream of the encryptor over a slice read in the pieces `reads`
RECURSIVE EncRun(_, _, _, _, _)
EncRun(es, plain, pos, reads, p) ==
    IF reads = <<>>
    THEN EncIteration(es, <<>>, TRUE, p)
    ELSE EncRun(EncIteration(es, SubSeq(plain, pos + 1, pos + Head(reads)), FALSE, p),
                plain, pos + Head(reads), Tail(reads), p)

\* file.slice(start, end) of chunk c: its byte positions in the file
SliceStart(c) == c * upParams.chunkSize
SliceEnd(c) == Min(SliceStart(c) + upParams.chunkSize, upParams.fileSize)
FileSlice(c) == [k \in 1..(SliceEnd(c) - SliceStart(c)) |-> (SliceStart(c) + k) % 256]

\* new EncryptorClass(masterKey, baseIv, chunkIndex, serverConfig.chunkSize, ENCRYPTION_BLOCK_SIZE)
EncryptorParams(c) ==
    [key |-> UpKey, baseIv |-> UpBaseIv, chunkIndex |-> c,
     chunkSize |-> upParams.chunkSize, blockSize |-> upParams.blockSize]

ChunkStep == {"spec", "transfer", "notify"}

UpInit ==
    /\ pc = "init"
    /\ upParams \in [fileSize : 0..MaxFileSize, chunkSize : 2..MaxChunkSize,
                     blockSize : 1..MaxBlockSize]
    /\ uploadedBytes = 0
    /\ totalChunks = CeilDiv(upParams.fileSize, upParams.chunkSize)
    /\ chunkNo = 0
    /\ encrypted = <<>>
    /\ attempt = 0
    /\ lastError = NoError
    /\ bytesBeforeAttempt = 0
    /\ chunkUploaded = 0
    /\ got = NoSpec
    /\ uploadedChunkIds = <<>>
    /\ result = [kind |-> "pending"]
    /\ usedIndices = <<>>
    /\ lastReq = NoReq
    /\ confirmed = <<>>
    /\ confirmedBytes = 0
    /\ chunkStartBytes = 0
    /\ progressEvents = 0
    /\ NonceIdle
    /\ BufIdle
    /\ CodecIdle
    /\ LimIdle
    /\ RestIdle

\* _initUpload() answered ok (upload-start refuses a fileSize of 0)
InitUploadOk ==
    /\ pc = "init"
    /\ upParams.fileSize > 0
    /\ pc' = "encrypt"
    /\ lastReq' = [kind |-> "start"]
    /\ UNCHANGED <<upParams, uploadedBytes, totalChunks, chunkNo, encrypted, attempt,
                   lastError, bytesBeforeAttempt, chunkUploaded, got, uploadedChunkIds,
                   result, usedIndices, confirmed, confirmedBytes, chunkStartBytes,
                   progressEvents>>
    /\ UNCHANGED <<nonceVars, bufVars, codecVars, limVars, restVars>>

\* _initUpload() throws: upload() rejects
InitUploadFail(status) ==
    /\ pc = "init"
    /\ pc' = "rejected"
    /\ lastReq' = [kind |-> "start"]
    /\ result' = [kind |-> "rejected", error |-> [step |-> "init", status |-> status]]
    /\ UNCHANGED <<upParams, uploadedBytes, totalChunks, chunkNo, encrypted, attempt,
                   lastError, bytesBeforeAttempt, chunkUploaded, got, uploadedChunkIds,
                   usedIndices, confirmed, confirmedBytes, chunkStartBytes,
                   progressEvents>>
    /\ UNCHANGED <<nonceVars, bufVars, codecVars, limVars, restVars>>

\* _uploadChunk, first half: encryptor.processStream(fileSlice) of chunk
\* chunkNo, then withRetry is entered (attempt = 0, lastError unset)
EncryptChunk ==
    /\ pc = "encrypt"
    /\ \E reads \in Compositions(Len(FileSlice(chunkNo))) :
          LET r == EncRun(NewEncryptor, FileSlice(chunkNo), 0, reads,
                          EncryptorParams(chunkNo))
          IN  /\ usedIndices' = usedIndices \o r.indices
              /\ encrypted' = [size |-> r.totalEncryptedSize]
    /\ lastReq' = [kind |-> "encrypt", chunk |-> chunkNo]
    /\ attempt' = 0
    /\ lastError' = NoError
    /\ chunkStartBytes' = uploadedBytes
    /\ pc' = "attempt"
    /\ UNCHANGED <<upParams, uploadedBytes, totalChunks, chunkNo, bytesBeforeAttempt,
                   chunkUploaded, got, uploadedChunkIds, result, confirmed,
                   confirmedBytes, progressEvents>>
    /\ UNCHANGED <<nonceVars, bufVars, codecVars, limVars, restVars>>

\* the worker fails after k blocks of the chunk: processStream throws and
\* upload() rejects
EncryptChunkFail(k) ==
    /\ pc = "encrypt"
    /\ LET r == EncRun(NewEncryptor, FileSlice(chunkNo), 0, <<Len(FileSlice(chunkNo))>>,
                       EncryptorParams(chunkNo))
       IN  /\ k < Len(r.indices)
           /\ usedIndices' = usedIndices \o SubSeq(r.indices, 1, k)
    /\ lastReq' = [kind |-> "encrypt", chunk |-> chunkNo]
    /\ pc' = "rejected"
    /\ result' = [kind |-> "rejected",
                  error |-> [step |-> "encrypt", chunk |-> chunkNo, status |-> 0]]
    /\ UNCHANGED <<upParams, uploadedBytes, totalChunks, chunkNo, encrypted, attempt,
                   lastError, bytesBeforeAttempt, chunkUploaded, got, uploadedChunkIds,
                   confirmed, confirmedBytes, chunkStartBytes, progressEvents>>
    /\ UNCHANGED <<nonceVars, bufVars, codecVars, limVars, restVars>>

\* A plausible slip: a retry reuses the upload spec of the failed attempt.
AttemptStartReuseSpec ==
    /\ pc = "attempt"
    /\ bytesBeforeAttempt' = uploadedBytes
    /\ chunkUploaded' = 0
    /\ progressEvents' = 0
    /\ IF got = NoSpec
       THEN /\ lastReq' = [kind |-> "spec", chunk |-> chunkNo, attempt |-> attempt]
            /\ pc' = "spec"
       ELSE /\ lastReq' = [kind |-> "transfer", chunk |-> chunkNo, attempt |-> attempt,
                           uploadSpec |-> got.uploadSpec]
            /\ pc' = "transfer"
    /\ UNCHANGED <<upParams, uploadedBytes, totalChunks, chunkNo, encrypted, attempt,
                   lastError, got, uploadedChunkIds, result, usedIndices, confirmed,
                   confirmedBytes, chunkStartBytes>>
    /\ UNCHANGED <<nonceVars, bufVars, codecVars, limVars, restVars>>

\* withRetry calls fn(): the attempt's locals are fresh and the upload-spec
\* request is sent
AttemptStart ==
    /\ pc = "attempt"
    /\ bytesBeforeAttempt' = uploadedBytes
    /\ chunkUploaded' = 0
    /\ got' = NoSpec
    /\ progressEvents' = 0
    /\ lastReq' = [kind |-> "spec", chunk |-> chunkNo, attempt |-> attempt]
    /\ pc' = "spec"
    /\ UNCHANGED <<upParams, uploadedBytes, totalChunks, chunkNo, encrypted, attempt,
                   lastError, uploadedChunkIds, result, usedIndices, confirmed,
                   confirmedBytes, chunkStartBytes>>
    /\ UNCHANGED <<nonceVars, bufVars, codecVars, limVars, restVars>>

\* A plausible slip: the catch block leaves the counted bytes in place.
NotRolledBack(before, now) == now

\* catch: this.uploadedBytes = bytesBeforeAttempt
RolledBack(before, now) == before

\* A plausible slip: withRetry keeps the first error.
NextLastErrorFirst(prev, err) == IF prev = NoError THEN err ELSE prev

\* withRetry, catch: lastError = err
NextLastError(prev, err) == err

\* withRetry: if (attempt < retries) wait and go round again
ShouldRetry(err, n) == n < MaxRetries

\* an attempt throws err: the catch block of _uploadChunk, then the catch
\* block of withRetry
Catch(err) ==
    /\ uploadedBytes' = RolledBack(bytesBeforeAttempt, uploadedBytes)
    /\ lastError' = NextLastError(lastError, err)
    /\ IF ShouldRetry(err, attempt)
       THEN pc' = "backoff" /\ UNCHANGED result
       ELSE pc' = "rejected" /\ result' = [kind |-> "rejected", error |-> lastError']

Failure(step, status) ==
    [step |-> step, chunk |-> chunkNo, attempt |-> attempt, status |-> status]

\* the server answers the upload-spec request: it names a new stored object
\* and its upload; the transfer is started with them
SpecOk(bodyType) ==
    /\ pc = "spec"
    /\ LET id == [chunk |-> lastReq.chunk, attempt |-> lastReq.attempt]
       IN  /\ got' = [uploadSpec |-> id, chunkFileId |-> id, uploadId |-> id,
                      bodyType |-> bodyType]
           /\ lastReq' = [kind |-> "transfer", chunk |-> chunkNo, attempt |-> attempt,
                          uploadSpec |-> got'.uploadSpec]
    /\ pc' = "transfer"
    /\ UNCHANGED <<upParams, uploadedBytes, totalChunks, chunkNo, encrypted, attempt,
                   lastError, bytesBeforeAttempt, chunkUploaded, uploadedChunkIds,
                   result, usedIndices, confirmed, confirmedBytes, chunkStartBytes,
                   progressEvents>>
    /\ UNCHANGED <<nonceVars, bufVars, codecVars, limVars, restVars>>

\* _getUploadSpec throws (status 0: the fetch itself failed)
SpecFail(status) ==
    /\ pc = "spec"
    /\ Catch(Failure("spec", status))
    /\ UNCHANGED <<upParams, totalChunks, chunkNo, encrypted, attempt,
                   bytesBeforeAttempt, chunkUploaded, got, uploadedChunkIds,
                   usedIndices, lastReq, confirmed, confirmedBytes, chunkStartBytes,
                   progressEvents>>
    /\ UNCHANGED <<nonceVars, bufVars, codecVars, limVars, restVars>>

\* the size of the request body: the Blob, or the form that wraps it
BodyTotal == encrypted.size + (IF got.bodyType = "form-data" THEN FormDataOverhead ELSE 0)

\* the values of e.loaded the model lets a progress event carry
ProgressSamples == IF pc = "transfer" THEN {1, BodyTotal} ELSE {}

\* xhr.upload.onprogress with lengthComputable: loaded never decreases
XhrProgress(loaded) ==
    /\ pc = "transfer"
    /\ progressEvents < MaxProgressEvents
    /\ loaded >= chunkUploaded
    /\ LET delta == loaded - chunkUploaded
       IN  uploadedBytes' = uploadedBytes + delta
    /\ chunkUploaded' = loaded
    /\ progressEvents' = progressEvents + 1
    /\ UNCHANGED <<pc, upParams, totalChunks, chunkNo, encrypted, attempt, lastError,
                   bytesBeforeAttempt, got, uploadedChunkIds, result, usedIndices,
                   lastReq, confirmed, confirmedBytes, chunkStartBytes>>
    /\ UNCHANGED <<nonceVars, bufVars, codecVars, limVars, restVars>>

\* xhr.onload with a 2xx status: the completion notice is sent
XhrLoadOk ==
    /\ pc = "transfer"
    /\ lastReq' = [kind |-> "notify", chunk |-> chunkNo, attempt |-> attempt,
                   chunkFileId |-> got.chunkFileId, uploadId |-> got.uploadId]
    /\ pc' = "notify"
    /\ UNCHANGED <<upParams, uploadedBytes, totalChunks, chunkNo, encrypted, attempt,
                   lastError, bytesBeforeAttempt, chunkUploaded, got, uploadedChunkIds,
                   result, usedIndices, confirmed, confirmedBytes, chunkStartBytes,
                   progressEvents>>
    /\ UNCHANGED <<nonceVars, bufVars, codecVars, limVars, restVars>>

\* xhr.onload with another status, or xhr.onerror (status 0)
XhrFail(status) ==
    /\ pc = "transfer"
    /\ Catch(Failure("transfer", status))
    /\ UNCHANGED <<upParams, totalChunks, chunkNo, encrypted, attempt,
                   bytesBeforeAttempt, chunkUploaded, got, uploadedChunkIds,
                   usedIndices, lastReq, confirmed, confirmedBytes, chunkStartBytes,
                   progressEvents>>
    /\ UNCHANGED <<nonceVars, bufVars, codecVars, limVars, restVars>>

\* A plausible slip: the entries of the chunk-id list are numbered from one.
NotifyOkIndexFromOne ==
    /\ pc = "notify"
    /\ uploadedChunkIds' = Append(uploadedChunkIds,
                                  [index |-> chunkNo + 1, fileId |-> got.chunkFileId])
    /\ confirmed' = Append(confirmed, [chunk |-> lastReq.chunk,
                                       chunkFileId |-> lastReq.chunkFileId])
    /\ confirmedBytes' = confirmedBytes + encrypted.size
    /\ chunkNo' = chunkNo + 1
    /\ pc' = IF chunkNo + 1 < totalChunks THEN "encrypt" ELSE "finalize"
    /\ UNCHANGED <<upParams, uploadedBytes, totalChunks, encrypted, attempt, lastError,
                   bytesBeforeAttempt, chunkUploaded, got, result, usedIndices, lastReq,
                   chunkStartBytes, progressEvents>>
    /\ UNCHANGED <<nonceVars, bufVars, codecVars, limVars, restVars>>

\* the completion notice is answered ok: fn returns chunkFileId, withRetry
\* and _uploadChunk return it, upload() records it and goes to the next chunk
NotifyOk ==
    /\ pc = "notify"
    /\ uploadedChunkIds' = Append(uploadedChunkIds,
                                  [index |-> chunkNo, fileId |-> got.chunkFileId])
    /\ confirmed' = Append(confirmed, [chunk |-> lastReq.chunk,
                                       chunkFileId |-> lastReq.chunkFileId])
    /\ confirmedBytes' = confirmedBytes + encrypted.size
    /\ chunkNo' = chunkNo + 1
    /\ pc' = IF chunkNo + 1 < totalChunks THEN "encrypt" ELSE "finalize"
    /\ UNCHANGED <<upParams, uploadedBytes, totalChunks, encrypted, attempt, lastError,
                   bytesBeforeAttempt, chunkUploaded, got, result, usedIndices, lastReq,
                   chunkStartBytes, progressEvents>>
    /\ UNCHANGED <<nonceVars, bufVars, codecVars, limVars, restVars>>

\* A plausible slip: the answer of the completion notice is not looked at,
\* and a refused notice passes for a confirmation.
NotifyFailIgnored(status) ==
    /\ pc = "notify"
    /\ uploadedChunkIds' = Append(uploadedChunkIds,
                                  [index |-> chunkNo, fileId |-> got.chunkFileId])
    /\ chunkNo' = chunkNo + 1
    /\ pc' = IF chunkNo + 1 < totalChunks THEN "encrypt" ELSE "finalize"
    /\ UNCHANGED <<upParams, uploadedBytes, totalChunks, encrypted, attempt, lastError,
                   bytesBeforeAttempt, chunkUploaded, got, result, usedIndices, lastReq,
                   confirmed, confirmedBytes, chunkStartBytes, progressEvents>>
    /\ UNCHANGED <<nonceVars, bufVars, codecVars, limVars, restVars>>

\* _notifyChunkComplete throws
NotifyFail(status) ==
    /\ pc = "notify"
    /\ Catch(Failure("notify", status))
    /\ UNCHANGED <<upParams, totalChunks, chunkNo, encrypted, attempt,
                   bytesBeforeAttempt, chunkUploaded, got, uploadedChunkIds,
                   usedIndices, lastReq, confirmed, confirmedBytes, chunkStartBytes,
                   progressEvents>>
    /\ UNCHANGED <<nonceVars, bufVars, codecVars, limVars, restVars>>

\* the delay of withRetry has passed: the next attempt
BackoffElapsed ==
    /\ pc = "backoff"
    /\ attempt' = attempt + 1
    /\ pc' = "attempt"
    /\ UNCHANGED <<upParams, uploadedBytes, totalChunks, chunkNo, encrypted, lastError,
                   bytesBeforeAttempt, chunkUploaded, got, uploadedChunkIds, result,
                   usedIndices, lastReq, confirmed, confirmedBytes, chunkStartBytes,
                   progressEvents>>
    /\ UNCHANGED <<nonceVars, bufVars, codecVars, limVars, restVars>>

\* after the loop: encryptSensitiveMeta, then the finalize request is sent
SendFinalize ==
    /\ pc = "finalize"
    /\ lastReq' = [kind |-> "finalize", chunkIds |-> uploadedChunkIds,
                   totalChunks |-> totalChunks]
    /\ pc' = "finalizing"
    /\ UNCHANGED <<upParams, uploadedBytes, totalChunks, chunkNo, encrypted, attempt,
                   lastError, bytesBeforeAttempt, chunkUploaded, got, uploadedChunkIds,
                   result, usedIndices, confirmed, confirmedBytes, chunkStartBytes,
                   progressEvents>>
    /\ UNCHANGED <<nonceVars, bufVars, codecVars, limVars, restVars>>

\* the finalize request is answered ok: upload() returns {fileId, masterKeyStr}
FinalizeOk ==
    /\ pc = "finalizing"
    /\ pc' = "resolved"
    /\ result' = [kind |-> "resolved"]
    /\ UNCHANGED <<upParams, uploadedBytes, totalChunks, chunkNo, encrypted, attempt,
                   lastError, bytesBeforeAttempt, chunkUploaded, got, uploadedChunkIds,
                   usedIndices, lastReq, confirmed, confirmedBytes, chunkStartBytes,
                   progressEvents>>
    /\ UNCHANGED <<nonceVars, bufVars, codecVars, limVars, restVars>>

\* _finalizeUpload throws: upload() rejects
FinalizeFail(status) ==
    /\ pc = "finalizing"
    /\ pc' = "rejected"
    /\ result' = [kind |-> "rejected", error |-> [step |-> "finalize", status |-> status]]
    /\ UNCHANGED <<upParams, uploadedBytes, totalChunks, chunkNo, encrypted, attempt,
                   lastError, bytesBeforeAttempt, chunkUploaded, got, uploadedChunkIds,
                   usedIndices, lastReq, confirmed, confirmedBytes, chunkStartBytes,
                   progressEvents>>
    /\ UNCHANGED <<nonceVars, bufVars, codecVars, limVars, restVars>>

\* what a failed fetch of the upload API can look like: a refused request
\* (400, 403), a server error (500), no answer at all (0)
ApiFailures == {400, 403, 500, 0}

UpNext ==
    \/ InitUploadOk
    \/ \E status \in ApiFailures : InitUploadFail(status)
    \/ EncryptChunk
    \/ \E k \in 0..MaxChunkSize : EncryptChunkFail(k)
    \/ AttemptStart
    \/ \E bodyType \in {"raw", "form-data"} : SpecOk(bodyType)
    \/ \E status \in ApiFailures : SpecFail(status)
    \/ \E loaded \in ProgressSamples : XhrProgress(loaded)
    \/ XhrLoadOk
    \/ \E status \in {500, 0} : XhrFail(status)
    \/ NotifyOk
    \/ \E status \in ApiFailures : NotifyFail(status)
    \/ BackoffElapsed
    \/ SendFinalize
    \/ FinalizeOk
    \/ \E status \in ApiFailures : FinalizeFail(status)

Spec == UpInit /\ [][UpNext]_vars

InAttempt == pc \in {"attempt", "spec", "transfer", "notify", "backoff"}

NoDuplicates(q) == \A a, b \in 1..Len(q) : a # b => q[a] # q[b]

\* the blocks of chunks 0..c of the file: each chunk but the last has
\* chunkSize bytes, each block but the last of a chunk has blockSize bytes
RECURSIVE BlocksUpTo(_)
BlocksUpTo(c) ==
    IF c < 0 THEN 0
    ELSE BlocksUpTo(c - 1) + CeilDiv(SliceEnd(c) - SliceStart(c), upParams.blockSize)

\* C1: no global block index is used by two block encryptions of one
\* upload() run, and the attempts of a chunk encrypt nothing: while chunk
\* chunkNo is being transferred the encryptions made are exactly one per
\* block of the chunks 0..chunkNo.
UniqueBlockIndices ==
    /\ NoDuplicates(usedIndices)
    /\ InAttempt => Len(usedIndices) = BlocksUpTo(chunkNo)

\* the second chunk of a file whose chunks are not whole blocks, in a retry
UniqueBlockIndicesWitness ==
    /\ pc = "spec"
    /\ attempt >= 1
    /\ chunkNo = 1
    /\ upParams.chunkSize = 3 /\ upParams.blockSize = 2 /\ upParams.fileSize = 4
    /\ usedIndices = <<0, 1, 2>>

\* C6, as the claim states it: a failed attempt leaves uploadedBytes where
\* the attempt found it, and a retry starts at the ciphertext bytes of the
\* confirmed chunks.
RetryStartsAtConfirmedBytes ==
    /\ pc = "backoff" => uploadedBytes = bytesBeforeAttempt
    /\ (pc = "attempt" /\ attempt > 0) => uploadedBytes = confirmedBytes

\* C6, amended: a failed attempt leaves uploadedBytes where the attempt
\* found it, at whichever step it failed and whatever progress it had
\* counted, so every retry starts at the value uploadedBytes had when the
\* first attempt of the chunk started.
RetryRestoresBytes ==
    /\ pc = "backoff" => uploadedBytes = bytesBeforeAttempt
    /\ (pc = "rejected" /\ result.error.step \in ChunkStep) =>
          uploadedBytes = bytesBeforeAttempt
    /\ pc \in {"attempt", "backoff"} => uploadedBytes = chunkStartBytes
    /\ pc \in {"spec", "transfer", "notify"} => bytesBeforeAttempt = chunkStartBytes

\* a retry of the second chunk about to start, after an attempt that had
\* counted progress and then failed
RetryRestoresBytesWitness ==
    /\ pc = "attempt"
    /\ attempt >= 1
    /\ chunkNo = 1
    /\ chunkStartBytes > 0
    /\ chunkUploaded > 0
    /\ lastError.step \in {"transfer", "notify"}
    /\ uploadedBytes = chunkStartBytes

ConfirmedChunks == [k \in 1..Len(confirmed) |-> confirmed[k].chunk]

\* C7: chunks are handled in index order, one at a time: whatever was last
\* started (an encryption, a request) belongs to the chunk right after the
\* confirmed ones, and the finalize request is sent with all chunks
\* confirmed.
UploadInOrder ==
    /\ ConfirmedChunks = [k \in 1..Len(confirmed) |-> k - 1]
    /\ Len(confirmed) = chunkNo
    /\ lastReq.kind \in {"encrypt", "spec", "transfer"} => lastReq.chunk = Len(confirmed)
    /\ lastReq.kind = "notify" =>
          \/ lastReq.chunk = Len(confirmed)
          \/ lastReq.chunk = Len(confirmed) - 1 /\ pc \in {"encrypt", "finalize"}
    /\ lastReq.kind = "finalize" => Len(confirmed) = totalChunks
    /\ pc \in {"finalizing", "resolved"} => lastReq.kind = "finalize"

\* the finalize request of a two-chunk file, sent after a retry
UploadInOrderWitness ==
    /\ pc = "finalizing"
    /\ totalChunks = 2
    /\ ConfirmedChunks = <<0, 1>>
    /\ attempt >= 1

\* C8: when the attempts of a chunk are used up, upload() rejects with the
\* error of the last attempt, with no later chunk touched and no finalize
\* request sent; upload() resolves only after the finalize request was
\* answered; a rejected upload returns nothing.
ExhaustedRetriesReject ==
    /\ (pc = "rejected" /\ result.error.step \in ChunkStep) =>
          /\ result.error = lastError
          /\ result.error.attempt = MaxRetries
          /\ result.error.chunk = chunkNo
          /\ lastReq.kind \in {"spec", "transfer", "notify"}
          /\ lastReq.chunk = chunkNo
          /\ Len(uploadedChunkIds) = chunkNo
    /\ result.kind = "resolved" =>
          /\ pc = "resolved"
          /\ lastReq.kind = "finalize"
          /\ Len(confirmed) = totalChunks
    /\ pc = "rejected" <=> result.kind = "rejected"
    /\ pc = "resolved" <=> result.kind = "resolved"

\* the second chunk's last attempt failed at the completion notice
ExhaustedRetriesWitness ==
    /\ pc = "rejected"
    /\ result.error.step = "notify"
    /\ result.error.attempt = MaxRetries
    /\ chunkNo = 1
    /\ totalChunks = 2

\* C9: every attempt starts with its own upload-spec request; the transfer
\* and the completion notice carry what that request was answered with;
\* the id recorded for a chunk is the one of the notice that was confirmed.
AttemptUsesOwnSpec ==
    /\ pc = "spec" =>
          lastReq = [kind |-> "spec", chunk |-> chunkNo, attempt |-> attempt]
    /\ pc = "transfer" =>
          /\ lastReq.kind = "transfer"
          /\ lastReq.uploadSpec = [chunk |-> chunkNo, attempt |-> attempt]
    /\ pc = "notify" =>
          /\ lastReq.kind = "notify"
          /\ lastReq.chunkFileId = [chunk |-> chunkNo, attempt |-> attempt]
          /\ lastReq.uploadId = [chunk |-> chunkNo, attempt |-> attempt]
    /\ Len(uploadedChunkIds) = Len(confirmed)
    /\ \A k \in 1..Len(uploadedChunkIds) :
          /\ uploadedChunkIds[k].index = confirmed[k].chunk
          /\ uploadedChunkIds[k].fileId = confirmed[k].chunkFileId

\* the completion notice of the third attempt of the second chunk
AttemptUsesOwnSpecWitness ==
    /\ pc = "notify"
    /\ attempt = 2
    /\ chunkNo = 1
    /\ lastReq.chunkFileId = [chunk |-> 1, attempt |-> 2]
    /\ uploadedChunkIds[1].fileId.chunk = 0

\* C34: the finalize request carries a chunk-id list with exactly one entry
\* for each index 0..totalChunks-1, in ascending order of index; the entry
\* for index i carries the storage file id that the attempt of chunk i whose
\* completion notice was confirmed got with its upload spec; and
\* metadata.totalChunks is the length of the list.
FinalizeListComplete ==
    lastReq.kind = "finalize" =>
        /\ Len(lastReq.chunkIds) = CeilDiv(upParams.fileSize, upParams.chunkSize)
        /\ lastReq.totalChunks = Len(lastReq.chunkIds)
        /\ \A k \in 1..Len(lastReq.chunkIds) :
              /\ lastReq.chunkIds[k].index = k - 1
              /\ lastReq.chunkIds[k].fileId.chunk = k - 1
              /\ \E c \in 1..Len(confirmed) :
                    /\ confirmed[c].chunk = k - 1
                    /\ confirmed[c].chunkFileId = lastReq.chunkIds[k].fileId

\* the list of a two-chunk file whose first chunk was confirmed in its
\* second attempt and whose second chunk in its first
FinalizeListWitness ==
    /\ lastReq.kind = "finalize"
    /\ Len(lastReq.chunkIds) = 2
    /\ lastReq.chunkIds[1].fileId = [chunk |-> 0, attempt |-> 1]
    /\ lastReq.chunkIds[2].fileId = [chunk |-> 1, attempt |-> 0]

\* C36: the byte counter reported as progress stays within the transfer's
\* totalBytes, the plaintext size of the file: 0 <= uploadedBytes <=
\* totalBytes throughout an upload and 0 <= downloadedBytes <= totalBytes
\* throughout a download.
ProgressWithinTotal ==
    /\ pc # "idle" => (0 <= uploadedBytes /\ uploadedBytes <= upParams.fileSize)
    /\ dlPc # "idle" => (0 <= dlDownloadedBytes /\ dlDownloadedBytes <= dlMeta.size)

ClientError(err) == err.step \in {"spec", "notify"} /\ err.status \in {400, 403}

\* C10: after an upload-spec request or a completion notice was refused
\* with 400 or 403, the error is surfaced and no further attempt is made
\* for the chunk.
ClientErrorsNotRetried ==
    (ClientError(lastError) /\ lastError.chunk = chunkNo) =>
        /\ pc = "rejected"
        /\ result.error = lastError
        /\ lastError.attempt = attempt

(***************************************************************************)
(* Upload tokens: signUploadPayload and verifyUploadToken.  A string is a   *)
(* sequence of character codes.                                            *)
(***************************************************************************)
Range(a, b) == [k \in 1..(b - a + 1) |-> a + k - 1]

\* "0123456789ABCDEFGHIJKLMNOPQRSTUVWXYZabcdefghijklmnopqrstuvwxyz"
BASE62 == Range(48, 57) \o Range(65, 90) \o Range(97, 122)

\* the alphabet of btoa / atob: A-Z a-z 0-9 + /
B64Alphabet == Range(65, 90) \o Range(97, 122) \o Range(48, 57) \o <<43, 47>>

\* the characters the token code names
Chr == [colon |-> 58, dot |-> 46, minus |-> 45, underscore |-> 95, plus |-> 43,
        slash |-> 47, equals |-> 61, zero |-> 48, nine |-> 57, bang |-> 33]

\* String.prototype.indexOf for one character, counted from 0; -1 if absent
RECURSIVE IndexFrom(_, _, _)
IndexFrom(str, c, k) ==
    IF k > Len(str) THEN -1
    ELSE IF str[k] = c THEN k - 1
    ELSE IndexFrom(str, c, k + 1)

IndexOf(str, c) == IndexFrom(str, c, 1)

\* str.replace(/from/g, to) for single characters
ReplaceAll(str, from, to) == [k \in 1..Len(str) |-> IF str[k] = from THEN to ELSE str[k]]

\* str.replace(/c/g, "")
RemoveAll(str, c) == SelectSeq(str, LAMBDA x : x # c)

\* str.split(sep) for a one-character separator
RECURSIVE Split(_, _)
Split(str, sep) ==
    LET at == IndexOf(str, sep)
    IN  IF at = -1 THEN <<str>>
        ELSE <<SubSeq(str, 1, at)>> \o Split(SubSeq(str, at + 2, Len(str)), sep)

\* const [a, b, c] = parts: the k-th part, or undefined (no string holds the
\* code -1)
Undefined == <<-1>>
Part(parts, k) == IF k <= Len(parts) THEN parts[k] ELSE Undefined

\* `${n}` for a non-negative integer
RECURSIVE ToDecimal(_)
ToDecimal(n) ==
    IF n < 10 THEN <<Chr.zero + n>>
    ELSE ToDecimal(n \div 10) \o <<Chr.zero + (n % 10)>>

\* parseInt(str, 10): the leading decimal digits, NaN without any
\* (NaN is a number no computation of the model yields)
NaN == -999999
IsDigit(c) == c >= Chr.zero /\ c <= Chr.nine
RECURSIVE DigitsValue(_, _)
DigitsValue(str, acc) ==
    IF str = <<>> \/ ~IsDigit(Head(str)) THEN acc
    ELSE DigitsValue(Tail(str), acc * 10 + (Head(str) - Chr.zero))
ParseInt(str) ==
    IF str = Undefined \/ str = <<>> THEN NaN
    ELSE IF Head(str) = Chr.minus
         THEN IF Len(str) > 1 /\ IsDigit(str[2]) THEN 0 - DigitsValue(Tail(str), 0) ELSE NaN
         ELSE IF IsDigit(Head(str)) THEN DigitsValue(str, 0) ELSE NaN

\* btoa: three bytes give four characters, the last group is padded with =
RECURSIVE Btoa(_)
Btoa(bytes) ==
    LET c(v) == B64Alphabet[v + 1]
    IN  IF bytes = <<>> THEN <<>>
        ELSE IF Len(bytes) = 1
             THEN <<c(bytes[1] \div 4), c((bytes[1] % 4) * 16), Chr.equals, Chr.equals>>
        ELSE IF Len(bytes) = 2
             THEN <<c(bytes[1] \div 4), c((bytes[1] % 4) * 16 + (bytes[2] \div 16)),
                    c((bytes[2] % 16) * 4), Chr.equals>>
        ELSE <<c(bytes[1] \div 4), c((bytes[1] % 4) * 16 + (bytes[2] \div 16)),
               c((bytes[2] % 16) * 4 + (bytes[3] \div 64)), c(bytes[3] % 64)>>
             \o Btoa(SubSeq(bytes, 4, Len(bytes)))

\* atob: padding is optional; a character outside the alphabet or a dangling
\* single character makes it throw
RECURSIVE AtobGroups(_)
AtobGroups(vals) ==
    IF Len(vals) < 2 THEN <<>>
    ELSE IF Len(vals) = 2 THEN <<vals[1] * 4 + (vals[2] \div 16)>>
    ELSE IF Len(vals) = 3
         THEN <<vals[1] * 4 + (vals[2] \div 16), (vals[2] % 16) * 16 + (vals[3] \div 4)>>
    ELSE <<vals[1] * 4 + (vals[2] \div 16), (vals[2] % 16) * 16 + (vals[3] \div 4),
           (vals[3] % 4) * 64 + vals[4]>>
         \o AtobGroups(SubSeq(vals, 5, Len(vals)))

\* (no string holds the code -2)
Threw == <<-2>>

\* the place of a character in the alphabet of btoa / atob, -1 outside it
B64Value(c) ==
    IF c >= 65 /\ c <= 90 THEN c - 65
    ELSE IF c >= 97 /\ c <= 122 THEN c - 71
    ELSE IF c >= 48 /\ c <= 57 THEN c + 4
    ELSE IF c = Chr.plus THEN 62
    ELSE IF c = Chr.slash THEN 63
    ELSE -1

Atob(str) ==
    LET n == Len(str)
        pad == IF (n % 4) # 0 \/ n = 0 THEN 0
               ELSE IF str[n] # Chr.equals THEN 0
               ELSE IF str[n - 1] = Chr.equals THEN 2 ELSE 1
        vals == [k \in 1..(n - pad) |-> B64Value(str[k])]
    IN  IF (Len(vals) % 4) = 1 \/ \E k \in 1..Len(vals) : vals[k] = -1
        THEN Threw
        ELSE AtobGroups(vals)

\* btoa(x).replace(/\+/g, "-").replace(/\//g, "_").replace(/=/g, "")
ToBase64Url(bytes) ==
    RemoveAll(ReplaceAll(ReplaceAll(Btoa(bytes), Chr.plus, Chr.minus),
                         Chr.slash, Chr.underscore), Chr.equals)

\* atob(x.replace(/-/g, "+").replace(/_/g, "/"))
FromBase64Url(str) ==
    Atob(ReplaceAll(ReplaceAll(str, Chr.minus, Chr.plus), Chr.underscore, Chr.slash))

\* TextEncoder.encode: UTF-8 of a string of characters below 256
RECURSIVE Utf8(_)
Utf8(str) ==
    IF str = <<>> THEN <<>>
    ELSE (IF Head(str) < 128 THEN <<Head(str)>>
          ELSE <<192 + (Head(str) \div 64), 128 + (Head(str) % 64)>>) \o Utf8(Tail(str))

\* HMAC-SHA256, idealised: the signature determines the key and the message
\* (no collisions), and is a string of bytes
Hmac(secret, data) == <<secret>> \o data

\* encodeHour: base 62, most significant digit first, padStart(4, "0")
RECURSIVE Base62Digits(_)
Base62Digits(num) ==
    IF num = 0 THEN <<>> ELSE Base62Digits(num \div 62) \o <<BASE62[(num % 62) + 1]>>

PadStart(str, n, c) == [k \in 1..(IF Len(str) < n THEN n - Len(str) ELSE 0) |-> c] \o str

EncodeHour(hour) == PadStart(Base62Digits(hour), 4, Chr.zero)

\* handleUploadStart: fileId = `${hourPart}-${randomPart}`
MakeFileId(hour, randomPart) == EncodeHour(hour) \o <<Chr.minus>> \o randomPart

\* S3Backend.createFolder: { folderId: name + "/" }
CreateFolder(name) == name \o <<Chr.slash>>

\* A plausible slip: the payload leaves out the separator before totalChunks.
SignedPayloadNoSeparator(fileId, folderId, nChunks) ==
    fileId \o <<Chr.colon>> \o folderId \o ToDecimal(nChunks)

\* signUploadPayload: payload = `${fileId}:${folderId}:${totalChunks}`
SignedPayload(fileId, folderId, nChunks) ==
    fileId \o <<Chr.colon>> \o folderId \o <<Chr.colon>> \o ToDecimal(nChunks)

\* signUploadPayload, from the payload on (the secret is configured)
SignPayload(secret, payload) ==
    ToBase64Url(payload) \o <<Chr.dot>> \o ToBase64Url(Hmac(secret, Utf8(payload)))

SignUploadPayload(secret, fileId, folderId, nChunks) ==
    SignPayload(secret, SignedPayload(fileId, folderId, nChunks))

Invalid == [valid |-> FALSE]

\* JavaScript falsiness of a string that may be undefined
Falsy(str) == str = Undefined \/ str = <<>>

\* A plausible slip: only the hour part of the fileId is compared.
FileIdMatchesHour(tokenFileId, fileId) ==
    Split(tokenFileId, Chr.minus)[1] = Split(fileId, Chr.minus)[1]

\* tokenFileId !== fileId, negated
FileIdMatches(tokenFileId, fileId) == tokenFileId = fileId

\* A plausible slip: the signature is decoded but not compared.
SignatureVerifiesAlways(secret, signature, data) == signature # Threw

\* crypto.subtle.verify("HMAC", key, signature, data)
SignatureVerifies(secret, signature, data) == signature = Hmac(secret, data)

\* verifyUploadToken; secret 0 stands for a missing UPLOAD_SECRET, with which
\* getSecretKey throws; every throw inside the try block ends in the catch
VerifyUploadToken(secret, fileId, token) ==
    IF Falsy(token) THEN Invalid
    ELSE IF secret = 0 THEN Invalid
    ELSE LET parts == Split(token, Chr.dot)
             payloadB64 == Part(parts, 1)
             sigB64 == Part(parts, 2)
         IN  IF Falsy(payloadB64) \/ Falsy(sigB64) THEN Invalid
             ELSE LET payload == FromBase64Url(payloadB64)
                  IN  IF payload = Threw THEN Invalid
                      ELSE LET fields == Split(payload, Chr.colon)
                               signature == FromBase64Url(sigB64)
                           IN  IF ~FileIdMatches(Part(fields, 1), fileId) THEN Invalid
                               ELSE IF signature = Threw THEN Invalid
                               ELSE IF ~SignatureVerifies(secret, signature, Utf8(payload))
                                    THEN Invalid
                               ELSE [valid |-> TRUE,
                                     fileId |-> Part(fields, 1),
                                     folderId |-> Part(fields, 2),
                                     totalChunks |-> ParseInt(Part(fields, 3))]

\* Math.floor(Date.now() / 3600000) + 1
HourSamples == {490000, 493417}

\* toBase62Bytes of six random bytes
RandomPartList == <<<<48, 48, 97, 51, 66, 120, 57, 90>>, <<48, 48, 97, 51, 66, 120, 57, 49>>>>
RandomPartSamples == {RandomPartList[k] : k \in DOMAIN RandomPartList}

FileIdSamples == {MakeFileId(h, r) : h \in HourSamples, r \in RandomPartSamples}

MaxTokChunks == 3

\* Math.ceil(fileSize / CHUNK_SIZE) of an accepted file: 1 up to 2048
TotalChunksSamples == {1, MaxTokChunks, 10, 2048}

\* UPLOAD_SECRET as configured on the server (0: not configured), and a
\* secret of somebody else
ServerSecrets == {0, 7}
OtherSecret == 9

TokInit ==
    /\ tkSecret \in ServerSecrets
    /\ tkIssue = <<>>
    /\ tkAsk = <<>>
    /\ tkResult = <<>>
    /\ NonceIdle
    /\ BufIdle
    /\ CodecIdle
    /\ LimIdle
    /\ UpIdle
    /\ SrvIdle
    /\ LaterIdle

tokOthers == <<nonceVars, bufVars, codecVars, limVars, upVars, srvVars, laterVars>>

\* handleUploadStart, from the fileId on: createFolder, signUploadPayload
TokIssue(hour, randomPart, nChunks) ==
    /\ tkIssue = <<>>
    /\ tkAsk = <<>>
    /\ tkSecret # 0
    /\ LET fileId == MakeFileId(hour, randomPart)
           folderId == CreateFolder(fileId)
       IN  tkIssue' = [fileId |-> fileId, folderId |-> folderId, totalChunks |-> nChunks,
                       token |-> SignUploadPayload(tkSecret, fileId, folderId, nChunks)]
    /\ UNCHANGED <<tkSecret, tkAsk, tkResult>>
    /\ UNCHANGED tokOthers

\* the tokens a client can present for fileId without having one issued
HowsFromNothing == {"missing", "empty", "otherSecret"}

TokenFromNothing(fileId, how) ==
    CASE how = "missing" -> Undefined
      [] how = "empty" -> <<>>
      [] how = "otherSecret" ->
            SignUploadPayload(OtherSecret, fileId, CreateFolder(fileId), 1)

\* the tokens a client can make of an issued one to present with fileId
HowsFromIssued ==
    {"asIssued", "noDot", "noSignature", "noPayload", "moreChunks", "otherFolder",
     "otherFile", "otherSecret", "notBase64", "shortSignature", "trailingPart"}

TokenFromIssued(issue, fileId, how) ==
    LET parts == Split(issue.token, Chr.dot)
        payloadB64 == parts[1]
        sigB64 == parts[2]
        resigned(payload) == ToBase64Url(payload) \o <<Chr.dot>> \o sigB64
    IN  CASE how = "asIssued" -> issue.token
          [] how = "noDot" -> payloadB64
          [] how = "noSignature" -> payloadB64 \o <<Chr.dot>>
          [] how = "noPayload" -> <<Chr.dot>> \o sigB64
          [] how = "moreChunks" ->
                resigned(SignedPayload(issue.fileId, issue.folderId, issue.totalChunks + 1))
          [] how = "otherFolder" ->
                resigned(SignedPayload(issue.fileId, CreateFolder(fileId \o fileId),
                                       issue.totalChunks))
          [] how = "otherFile" ->
                resigned(SignedPayload(fileId, CreateFolder(fileId), issue.totalChunks))
          [] how = "otherSecret" ->
                SignUploadPayload(OtherSecret, issue.fileId, issue.folderId,
                                  issue.totalChunks)
          [] how = "notBase64" -> payloadB64 \o <<Chr.bang, Chr.dot>> \o sigB64
          [] how = "shortSignature" ->
                payloadB64 \o <<Chr.dot>> \o SubSeq(sigB64, 1, Len(sigB64) - 1)
          [] how = "trailingPart" -> issue.token \o <<Chr.dot>> \o sigB64

\* a request handler calls verifyUploadToken(fileId, token)
TokVerify(fileId, how) ==
    /\ tkIssue # <<>>
    /\ tkAsk = <<>>
    /\ how \in HowsFromIssued
    /\ how = "otherFile" => fileId # tkIssue.fileId
    /\ tkAsk' = [fileId |-> fileId, how |-> how,
                 token |-> TokenFromIssued(tkIssue, fileId, how)]
    /\ tkResult' = VerifyUploadToken(tkSecret, fileId, tkAsk'.token)
    /\ UNCHANGED <<tkSecret, tkIssue>>
    /\ UNCHANGED tokOthers

TokVerifyUnissued(fileId, how) ==
    /\ tkIssue = <<>>
    /\ tkAsk = <<>>
    /\ how \in HowsFromNothing
    /\ tkAsk' = [fileId |-> fileId, how |-> how, token |-> TokenFromNothing(fileId, how)]
    /\ tkResult' = VerifyUploadToken(tkSecret, fileId, tkAsk'.token)
    /\ UNCHANGED <<tkSecret, tkIssue>>
    /\ UNCHANGED tokOthers

TokHows == HowsFromIssued \union HowsFromNothing

TokNext ==
    \/ \E h \in HourSamples, r \in RandomPartSamples, n \in TotalChunksSamples :
          TokIssue(h, r, n)
    \/ \E f \in FileIdSamples, how \in TokHows : TokVerify(f, how)
    \/ \E f \in FileIdSamples, how \in TokHows : TokVerifyUnissued(f, how)

SpecToken == TokInit /\ [][TokNext]_vars

TokAsked == tkAsk # <<>>

\* C11: a token issued for one fileId is refused for every other fileId,
\* and so is everything made of it: whatever verifies, verifies for the
\* fileId it was issued for.
TokenBoundToFile ==
    /\ (TokAsked /\ tkIssue # <<>> /\ tkAsk.how = "asIssued"
        /\ tkAsk.fileId # tkIssue.fileId) => tkResult = Invalid
    /\ (TokAsked /\ tkResult.valid) =>
          /\ tkIssue # <<>>
          /\ tkAsk.fileId = tkIssue.fileId
          /\ tkResult.fileId = tkIssue.fileId

\* the issued token presented for a fileId of the same hour
TokenBoundToFileWitness ==
    /\ TokAsked
    /\ tkAsk.how = "asIssued"
    /\ tkAsk.fileId # tkIssue.fileId
    /\ SubSeq(tkAsk.fileId, 1, 12) = SubSeq(tkIssue.fileId, 1, 12)
    /\ tkResult = Invalid

\* C12: the issued token, presented with the fileId it was issued for,
\* verifies and gives back the folderId and the totalChunks that were
\* signed.
TokenRoundTrip ==
    (TokAsked /\ tkAsk.how = "asIssued" /\ tkAsk.fileId = tkIssue.fileId) =>
        tkResult = [valid |-> TRUE,
                    fileId |-> tkIssue.fileId,
                    folderId |-> tkIssue.folderId,
                    totalChunks |-> tkIssue.totalChunks]

\* a token for the largest chunk count came back whole
TokenRoundTripWitness ==
    /\ TokAsked
    /\ tkAsk.how = "asIssued"
    /\ tkResult.valid
    /\ tkResult.totalChunks = 2048
    /\ tkResult.folderId = CreateFolder(tkAsk.fileId)

TokForgeries ==
    {"missing", "empty", "noDot", "noSignature", "noPayload", "moreChunks",
     "otherFolder", "otherFile", "otherSecret", "notBase64", "shortSignature"}

\* C13: verifyUploadToken always returns a result; it returns valid only
\* for a token whose signature part decodes to the HMAC, under the server's
\* secret, of what its payload part decodes to; missing, malformed, altered
\* and foreign-signed tokens are refused.
OnlySignedTokensVerify ==
    TokAsked =>
        /\ tkResult = Invalid \/ tkResult.valid = TRUE
        /\ tkResult # Invalid =>
              /\ tkSecret # 0
              /\ ~Falsy(tkAsk.token)
              /\ LET parts == Split(tkAsk.token, Chr.dot)
                 IN  /\ Len(parts) >= 2
                     /\ FromBase64Url(parts[2]) =
                           Hmac(tkSecret, Utf8(FromBase64Url(parts[1])))
        /\ tkAsk.how \in TokForgeries => tkResult = Invalid

\* the issued token with its chunk count raised, for the right fileId
OnlySignedWitness ==
    /\ TokAsked
    /\ tkAsk.how = "moreChunks"
    /\ tkAsk.fileId = tkIssue.fileId
    /\ tkResult = Invalid

(***************************************************************************)
(* The upload endpoints: handleUploadStart, handleUploadChunk,             *)
(* handleUploadChunkData, handleUploadChunkComplete, handleUploadComplete. *)
(***************************************************************************)
\* the secret the server runs with
SrvSecret == CHOOSE x \in ServerSecrets : x # 0

\* CHUNK_SIZE of functions/utils.js, in units of 1 MiB
SRV_CHUNK_SIZE == Big(10, 0)

\* a < b and a >= b of JavaScript numbers: false when either is NaN
JsLess(a, b) == a # NaN /\ b # NaN /\ a < b
JsGeq(a, b) == a # NaN /\ b # NaN /\ a >= b

\* decodeBase62: null (here NaN) at a character outside the alphabet
RECURSIVE DecodeBase62(_, _)
DecodeBase62(str, num) ==
    IF str = <<>> THEN num
    ELSE IF IndexOf(BASE62, Head(str)) = -1 THEN NaN
    ELSE DecodeBase62(Tail(str), num * 62 + IndexOf(BASE62, Head(str)))

\* "metadata:"
MetadataPrefix == <<109, 101, 116, 97, 100, 97, 116, 97, 58>>

\* getMetadataKey
GetMetadataKey(fileId) ==
    LET parts == Split(fileId, Chr.minus)
        firstPart == Part(parts, 1)
        randomPart == Part(parts, 2)
        hour == DecodeBase62(firstPart, 0)
    IN  IF Len(firstPart) = 4 /\ ~Falsy(randomPart) /\ hour # NaN
        THEN MetadataPrefix \o ToDecimal(hour * 3600) \o <<Chr.minus>> \o randomPart
        ELSE MetadataPrefix \o fileId

\* an answer of a handler: the status, the storage calls made and the store
\* writes made on the way to it
Answer(status, ops, puts) == [status |-> status, ops |-> ops, puts |-> puts]

\* { ...a, ...b } for objects given as functions from field names
Spread(a, b) ==
    [k \in DOMAIN a \union DOMAIN b |-> IF k \in DOMAIN b THEN b[k] ELSE a[k]]

\* chunkIds.sort((a, b) => a.index - b.index)
RECURSIVE SortByIndex(_)
SortByIndex(q) ==
    IF q = <<>> THEN <<>>
    ELSE LET k == CHOOSE k \in 1..Len(q) :
                     \A j \in 1..Len(q) :
                         q[k].index < q[j].index \/ (q[k].index = q[j].index /\ k <= j)
         IN  <<q[k]>> \o SortByIndex(SubSeq(q, 1, k - 1) \o SubSeq(q, k + 1, Len(q)))

\* A plausible slip: the bounds check lets chunkIndex = totalChunks through.
ChunkIndexOutOfRangeOffByOne(chunkIndex, nChunks) ==
    JsLess(chunkIndex, 0) \/ JsGeq(chunkIndex, nChunks + 1)

\* chunkIndex < 0 || chunkIndex >= totalChunks
ChunkIndexOutOfRange(chunkIndex, nChunks) ==
    JsLess(chunkIndex, 0) \/ JsGeq(chunkIndex, nChunks)

\* A plausible slip: a handler goes on after a failed verification.
TokenRefusedNever(tokenResult) == FALSE

\* if (!tokenResult.valid) return 403
TokenRefused(tokenResult) == ~tokenResult.valid

\* const { folderId, totalChunks } = tokenResult: undefined (here NaN, and the
\* undefined string) for a result without them
TotalChunksOf(tokenResult) == IF tokenResult.valid THEN tokenResult.totalChunks ELSE NaN
FolderIdOf(tokenResult) == IF tokenResult.valid THEN tokenResult.folderId ELSE Undefined

\* handleUploadChunk; has = the fields of the JSON body that are present and
\* truthy; specOk = the storage backend returned an uploadSpec
HandleUploadChunk(req, tokenResult, specOk) ==
    IF ~({"fileId", "chunkIndex", "chunkSize"} \subseteq req.has) THEN Answer(400, <<>>, <<>>)
    ELSE IF TokenRefused(tokenResult) THEN Answer(403, <<>>, <<>>)
    ELSE IF ChunkIndexOutOfRange(req.chunkIndex, TotalChunksOf(tokenResult))
         THEN Answer(400, <<>>, <<>>)
    ELSE Answer(IF specOk THEN 200 ELSE 500,
                <<[op |-> "createFileAndGetUploadUrl", folderId |-> FolderIdOf(tokenResult),
                   chunkIndex |-> req.chunkIndex]>>,
                <<>>)

\* handleUploadChunkData; chunkIndex = parseInt(header), NaN without the header
HandleUploadChunkData(req, tokenResult) ==
    IF "fileId" \notin req.has \/ req.chunkIndex = NaN THEN Answer(400, <<>>, <<>>)
    ELSE IF TokenRefused(tokenResult) THEN Answer(403, <<>>, <<>>)
    ELSE IF ChunkIndexOutOfRange(req.chunkIndex, TotalChunksOf(tokenResult))
         THEN Answer(400, <<>>, <<>>)
    ELSE Answer(200,
                <<[op |-> "uploadFile", folderId |-> FolderIdOf(tokenResult),
                   chunkIndex |-> req.chunkIndex]>>,
                <<>>)

\* handleUploadChunkComplete; failures = how many calls of completeUpload
\* throw before one succeeds; retry gives up after 3 calls
HandleUploadChunkComplete(req, tokenResult, failures) ==
    IF ~({"fileId", "chunkIndex", "chunkFileId"} \subseteq req.has) THEN Answer(400, <<>>, <<>>)
    ELSE IF TokenRefused(tokenResult) THEN Answer(403, <<>>, <<>>)
    ELSE Answer(IF failures < 3 THEN 200 ELSE 500,
                [k \in 1..Min(failures + 1, 3) |->
                    [op |-> "completeUpload", chunkIndex |-> req.chunkIndex]],
                <<>>)

\* metadata.totalChunks, undefined (here NaN) when the field is absent
MetaTotalChunks(metadata) ==
    IF "totalChunks" \in DOMAIN metadata THEN metadata.totalChunks ELSE NaN

\* A plausible slip: the length of the list is not compared with the token.
TokenCountMismatchIgnored(chunkIds, tokenResult) == FALSE

\* chunkIds.length !== totalChunks
TokenCountMismatch(chunkIds, tokenResult) == Len(chunkIds) # TotalChunksOf(tokenResult)

\* A plausible slip: the count in the metadata is not compared.
MetaCountMismatchIgnored(chunkIds, metadata) == FALSE

\* chunkIds.length !== metadata.totalChunks
MetaCountMismatch(chunkIds, metadata) == Len(chunkIds) # MetaTotalChunks(metadata)

\* A plausible slip: the spread of the submitted metadata comes last, so its
\* own chunkIds and folderId fields win.
FullMetadataClientWins(metadata, chunkIds, folderId) ==
    Spread([chunkIds |-> SortByIndex(chunkIds), folderId |-> folderId], metadata)

\* const fullMetadata = { ...metadata, chunkIds: chunkIds.sort(...), folderId }
FullMetadata(metadata, chunkIds, folderId) ==
    Spread(metadata, [chunkIds |-> SortByIndex(chunkIds), folderId |-> folderId])

\* handleUploadComplete; "chunkIds" is in has when it is an array
HandleUploadComplete(req, tokenResult) ==
    IF ~({"fileId", "metadata"} \subseteq req.has) THEN Answer(400, <<>>, <<>>)
    ELSE IF "chunkIds" \notin req.has THEN Answer(400, <<>>, <<>>)
    ELSE IF TokenRefused(tokenResult) THEN Answer(403, <<>>, <<>>)
    ELSE IF TokenCountMismatch(req.chunkIds, tokenResult) THEN Answer(400, <<>>, <<>>)
    ELSE IF MetaCountMismatch(req.chunkIds, req.metadata) THEN Answer(400, <<>>, <<>>)
    ELSE Answer(200, <<>>,
                <<[key |-> GetMetadataKey(req.fileId),
                   value |-> FullMetadata(req.metadata, req.chunkIds,
                                          FolderIdOf(tokenResult))]>>)

\* kv.put for every write of an answer
RECURSIVE KvPut(_, _)
KvPut(kv, puts) ==
    IF puts = <<>> THEN kv
    ELSE KvPut([k \in DOMAIN kv \union {Head(puts).key} |->
                   IF k = Head(puts).key THEN Head(puts).value ELSE kv[k]],
               Tail(puts))

\* ghost: the first value stored under every key
RECURSIVE KvFirst(_, _)
KvFirst(first, puts) ==
    IF puts = <<>> THEN first
    ELSE KvFirst([k \in DOMAIN first \union {Head(puts).key} |->
                     IF k \in DOMAIN first THEN first[k] ELSE Head(puts).value],
                 Tail(puts))

MaxSrvUploads == 2

\* fileSize of an upload-start request: refused, one chunk, two chunks, too large
SrvFileSizes == {Big(0, 0), Big(0, 1), Big(10, 1), Big(20 * 1024, 1)}

SrvHour == CHOOSE h \in HourSamples : \A g \in HourSamples : h >= g

\* a fileId no upload-start answered with
UnknownFileId == MakeFileId(SrvHour - 1, CHOOSE r \in RandomPartSamples : TRUE)

SrvInit ==
    /\ srvIssued = <<>>
    /\ srvKv = <<>>
    /\ srvFirst = <<>>
    /\ srvLast = NoRequest
    /\ NonceIdle
    /\ BufIdle
    /\ CodecIdle
    /\ LimIdle
    /\ UpIdle
    /\ TokIdle
    /\ LaterIdle

srvOthers == <<nonceVars, bufVars, codecVars, limVars, upVars, tokVars, laterVars>>

\* handleUploadStart
SrvUploadStart(fileSize, randomPart) ==
    /\ srvLast = NoRequest
    /\ Len(srvIssued) < MaxSrvUploads
    /\ randomPart = RandomPartList[(Len(srvIssued) % Len(RandomPartList)) + 1]
    /\ LET status == UploadStartStatus(fileSize)
           fileId == MakeFileId(SrvHour, randomPart)
           folderId == CreateFolder(fileId)
           nChunks == BigCeilDiv(fileSize, SRV_CHUNK_SIZE)
       IN  /\ \A k \in 1..Len(srvIssued) : srvIssued[k].fileId # fileId
           /\ IF status = 200
              THEN /\ srvIssued' = Append(srvIssued,
                          [fileId |-> fileId, folderId |-> folderId, totalChunks |-> nChunks,
                           token |-> SignUploadPayload(SrvSecret, fileId, folderId, nChunks)])
                   /\ srvLast' = [handler |-> "start", status |-> 200,
                                  ops |-> <<[op |-> "createFolder", name |-> fileId]>>,
                                  puts |-> <<>>]
              ELSE /\ srvLast' = [handler |-> "start", status |-> status,
                                  ops |-> <<>>, puts |-> <<>>]
                   /\ UNCHANGED srvIssued
    /\ UNCHANGED <<srvKv, srvFirst>>
    /\ UNCHANGED srvOthers

\* the fileIds and the tokens a client puts into a request
SrvFileIds == {srvIssued[k].fileId : k \in 1..Len(srvIssued)} \union {UnknownFileId}

SrvHows ==
    {[kind |-> "missing", of |-> 0], [kind |-> "otherSecret", of |-> 0]}
    \union [kind : {"asIssued", "moreChunks"}, of : 1..Len(srvIssued)]

SrvToken(how, fileId) ==
    IF how.of = 0 THEN TokenFromNothing(fileId, how.kind)
    ELSE TokenFromIssued(srvIssued[how.of], fileId, how.kind)

\* the ways a request lacks one of its fields
SrvHas(all) == {all} \union {all \ {f} : f \in all}

\* the verification a handler makes for its request
SrvVerify(has, fileId, how) ==
    VerifyUploadToken(SrvSecret, IF "fileId" \in has THEN fileId ELSE Undefined,
                      SrvToken(how, fileId))

\* ghost: the folderId the submitted metadata carried and whether the
\* submitted chunk-id list was in order
SrvSent(req) ==
    IF "metadata" \in DOMAIN req
    THEN [folderId |-> IF "folderId" \in DOMAIN req.metadata
                       THEN req.metadata.folderId ELSE Undefined,
          inOrder |-> \A i, j \in 1..Len(req.chunkIds) :
                         i < j => req.chunkIds[i].index <= req.chunkIds[j].index]
    ELSE [folderId |-> Undefined, inOrder |-> TRUE]

\* the request is answered: the store takes the writes, the ghost keeps what
\* was asked and what was done
SrvAnswered(handler, req, how, tokenResult, answer) ==
    /\ srvKv' = KvPut(srvKv, answer.puts)
    /\ srvFirst' = KvFirst(srvFirst, answer.puts)
    /\ srvLast' = [handler |-> handler, has |-> req.has, how |-> how,
                   fileId |-> req.fileId, chunkIndex |-> req.chunkIndex,
                   chunkCount |-> req.chunkCount, metaCount |-> req.metaCount,
                   verified |-> tokenResult, status |-> answer.status,
                   ops |-> answer.ops, puts |-> answer.puts, sent |-> SrvSent(req)]
    /\ UNCHANGED srvIssued
    /\ UNCHANGED srvOthers

SrvChunkIndices == {-1, 0, 1, 2}

SrvUploadChunk(fileId, how) ==
    /\ srvLast = NoRequest
    /\ \E has \in SrvHas({"fileId", "chunkIndex", "chunkSize"}) :
          LET tokenResult == SrvVerify(has, fileId, how)
          IN  \E chunkIndex \in SrvChunkIndices, specOk \in BOOLEAN :
                /\ (Cardinality(has) = 3 /\ specOk) \/ chunkIndex = 0
                /\ LET req == [has |-> has, fileId |-> fileId, chunkIndex |-> chunkIndex,
                               chunkCount |-> 0, metaCount |-> 0]
                   IN  SrvAnswered("chunk", req, how, tokenResult,
                                   HandleUploadChunk(req, tokenResult, specOk))

SrvUploadChunkData(fileId, how) ==
    /\ srvLast = NoRequest
    /\ \E has \in SrvHas({"fileId"}) :
          LET tokenResult == SrvVerify(has, fileId, how)
          IN  \E chunkIndex \in SrvChunkIndices \union {NaN} :
                LET req == [has |-> has, fileId |-> fileId, chunkIndex |-> chunkIndex,
                            chunkCount |-> 0, metaCount |-> 0]
                IN  SrvAnswered("data", req, how, tokenResult,
                                HandleUploadChunkData(req, tokenResult))

SrvUploadChunkComplete(fileId, how) ==
    /\ srvLast = NoRequest
    /\ \E has \in SrvHas({"fileId", "chunkIndex", "chunkFileId"}) :
          LET tokenResult == SrvVerify(has, fileId, how)
          IN  \E chunkIndex \in SrvChunkIndices, failures \in {0, 1, 3} :
                /\ (Cardinality(has) = 3 /\ failures = 0) \/ chunkIndex = 0
                /\ LET req == [has |-> has, fileId |-> fileId, chunkIndex |-> chunkIndex,
                               chunkCount |-> 0, metaCount |-> 0]
                   IN  SrvAnswered("notice", req, how, tokenResult,
                                   HandleUploadChunkComplete(req, tokenResult, failures))

\* the chunk-id lists a finalize request carries: of one to three chunks, in
\* and out of order; gen tells the ids of one request from those of another
SrvChunkIdLists(gen) ==
    LET c(i) == [index |-> i, fileId |-> <<gen, i>>]
    IN  {<<c(0)>>, <<c(0), c(1)>>, <<c(1), c(0)>>, <<c(0), c(1), c(2)>>}

\* the folderId a client puts into its metadata object: the container of
\* the first upload, or one of its own making when there is none
SrvClientFolderIds ==
    IF srvIssued = <<>> THEN {CreateFolder(UnknownFileId)} ELSE {srvIssued[1].folderId}

SrvMetadata(gen) ==
    {[size |-> gen]} \union {[size |-> gen, totalChunks |-> n] : n \in 1..2}
    \union {[size |-> gen, totalChunks |-> n, folderId |-> f] :
                n \in 1..2, f \in SrvClientFolderIds}

SrvUploadComplete(fileId, how) ==
    /\ srvLast = NoRequest
    /\ \E has \in SrvHas({"fileId", "metadata", "chunkIds"}) :
          LET tokenResult == SrvVerify(has, fileId, how)
          IN  \E gen \in 1..2 :
              \E chunkIds \in SrvChunkIdLists(gen), metadata \in SrvMetadata(gen) :
                /\ Cardinality(has) = 3 \/ (gen = 1 /\ Len(chunkIds) = 1 /\ metadata = [size |-> 1])
                /\ LET req == [has |-> has, fileId |-> fileId, chunkIndex |-> 0,
                               chunkIds |-> chunkIds, metadata |-> metadata,
                               chunkCount |-> Len(chunkIds),
                               metaCount |-> MetaTotalChunks(metadata)]
                   IN  SrvAnswered("complete", req, how, tokenResult,
                                   HandleUploadComplete(req, tokenResult))

\* the answer is sent; the next request can be taken
SrvRespond ==
    /\ srvLast # NoRequest
    /\ srvLast' = NoRequest
    /\ UNCHANGED <<srvIssued, srvKv, srvFirst>>
    /\ UNCHANGED srvOthers

SrvNext ==
    \/ \E fileSize \in SrvFileSizes, r \in RandomPartSamples : SrvUploadStart(fileSize, r)
    \/ \E f \in SrvFileIds, how \in SrvHows : SrvUploadChunk(f, how)
    \/ \E f \in SrvFileIds, how \in SrvHows : SrvUploadChunkData(f, how)
    \/ \E f \in SrvFileIds, how \in SrvHows : SrvUploadChunkComplete(f, how)
    \/ \E f \in SrvFileIds, how \in SrvHows : SrvUploadComplete(f, how)
    \/ SrvRespond

SpecServer == SrvInit /\ [][SrvNext]_vars

SrvGuarded == srvLast.handler \in {"chunk", "data", "notice", "complete"}

SrvTouched == srvLast.ops # <<>> \/ srvLast.puts # <<>>

SrvWellFormed ==
    CASE srvLast.handler = "chunk" -> {"fileId", "chunkIndex", "chunkSize"} \subseteq srvLast.has
      [] srvLast.handler = "data" -> "fileId" \in srvLast.has /\ srvLast.chunkIndex # NaN
      [] srvLast.handler = "notice" ->
            {"fileId", "chunkIndex", "chunkFileId"} \subseteq srvLast.has
      [] srvLast.handler = "complete" ->
            {"fileId", "metadata", "chunkIds"} \subseteq srvLast.has

ChunkIndexBounded ==
    (/\ srvLast.handler \in {"chunk", "data"}
     /\ srvLast.verified.valid
     /\ srvLast.chunkIndex # NaN
     /\ srvLast.chunkIndex < 0 \/ srvLast.chunkIndex >= srvLast.verified.totalChunks) =>
        /\ srvLast.status = 400
        /\ srvLast.ops = <<>>

\* chunkIndex = totalChunks with the upload's own token
ChunkIndexBoundedWitness ==
    /\ srvLast.handler = "chunk"
    /\ SrvWellFormed
    /\ srvLast.how.kind = "asIssued"
    /\ srvLast.verified.valid
    /\ srvLast.verified.totalChunks = 2
    /\ srvLast.chunkIndex = 2
    /\ srvLast.status = 400

\* C16: handleUploadComplete writes to the metadata store only with a token
\* that verifies for the fileId, a chunk-id list of exactly the token's
\* totalChunks entries and the same number in metadata.totalChunks; in every
\* other case it answers with an error status and writes nothing.
FinalizeWritesOnlyChecked ==
    srvLast.handler = "complete" =>
        LET checked ==
                /\ SrvWellFormed
                /\ srvLast.verified.valid
                /\ srvLast.chunkCount = srvLast.verified.totalChunks
                /\ srvLast.metaCount = srvLast.verified.totalChunks
        IN  /\ srvLast.puts # <<>> => checked
            /\ ~checked => srvLast.status \in {400, 403} /\ srvLast.puts = <<>>

\* a chunk-id list of the token's length with another count in the metadata
FinalizeWitness ==
    /\ srvLast.handler = "complete"
    /\ SrvWellFormed
    /\ srvLast.verified.valid
    /\ srvLast.chunkCount = srvLast.verified.totalChunks
    /\ srvLast.metaCount # srvLast.verified.totalChunks
    /\ srvLast.metaCount # NaN
    /\ srvLast.status = 400

\* C17: what is stored under a key of the metadata store is what was first
\* stored under it.
MetadataImmutable ==
    \A k \in DOMAIN srvKv : srvKv[k] = srvFirst[k]

\* C31: handleUploadChunkComplete calls storage.completeUpload only for a
\* chunkIndex inside [0, totalChunks) of the verified token.
NoticeIndexBounded ==
    (srvLast.handler = "notice" /\ srvLast.ops # <<>>) =>
        /\ srvLast.verified.valid
        /\ srvLast.chunkIndex >= 0
        /\ srvLast.chunkIndex < srvLast.verified.totalChunks

\* the entries of a chunk-id list are in ascending order of index
SortedByIndex(q) == \A i, j \in 1..Len(q) : i < j => q[i].index <= q[j].index

\* the upload-start answers whose fileId gives the key k of the metadata store
SrvIssuedFor(k) == {i \in 1..Len(srvIssued) : GetMetadataKey(srvIssued[i].fileId) = k}

\* C32: the folderId in persisted file metadata is the folderId of the
\* verified upload token, whatever folderId the submitted metadata object
\* carried, and the persisted chunk-id list is in ascending order of index.
FolderIdFromToken ==
    /\ \A k \in DOMAIN srvKv :
          /\ SrvIssuedFor(k) # {}
          /\ \A i \in SrvIssuedFor(k) : srvKv[k].folderId = srvIssued[i].folderId
          /\ SortedByIndex(srvKv[k].chunkIds)
    /\ (srvLast.handler = "complete" /\ srvLast.puts # <<>>) =>
          /\ srvLast.puts[1].value.folderId = srvLast.verified.folderId
          /\ SortedByIndex(srvLast.puts[1].value.chunkIds)

\* the second upload is finalized with the first upload's container named in
\* the metadata and the chunk ids out of order
FolderIdWitness ==
    /\ srvLast.handler = "complete"
    /\ srvLast.puts # <<>>
    /\ Len(srvIssued) = 2
    /\ srvLast.fileId = srvIssued[2].fileId
    /\ srvLast.sent.folderId = srvIssued[1].folderId
    /\ ~srvLast.sent.inOrder
    /\ srvKv[GetMetadataKey(srvLast.fileId)].folderId = srvIssued[2].folderId

(***************************************************************************)
(* The crypto worker (crypto-worker.js), the bridge to it                  *)
(* (CryptoWorkerBridge) and the worker-backed stream classes               *)
(* (WorkerStreamEncryptor / WorkerStreamDecryptor).  The worker has        *)
(* reported ready.  A stream read delivers one cipher block at a time; the *)
(* buffering between reads and blocks is the subject of SpecCodec.         *)
(***************************************************************************)

\* the keyIds crypto.randomUUID() hands out, in this order
WkUuids == <<1, 2>>

\* processStream calls on one stream object
MaxRuns == 2

\* blocks one processStream call sends to the worker
MaxWkBlocks == 2

\* two file transfers at the same time, each with one stream object at a time
WkSlots == {1, 2}

\* slot s carries the chunks of one file transfer, one after the other, under
\* the master key of that file
WkMasterKey(s) == s

WkBaseIv == UpBaseIv

WkSizes == [chunkSize |-> 2, blockSize |-> 1]

WkBlockTypes == {"encrypt-block", "decrypt-block"}

\* the plaintext of block number k of a chunk
WkPlain(k) == <<65 + k>>

\* what keyCache.get(keyId) returns for a keyId without an entry
NoKey == 0

\* a global singleton slot instead of a map
KeyCacheSetSingle(cache, keyId, key) == {[keyId |-> keyId, key |-> key]}

\* keyCache.set(keyId, masterKey)
KeyCacheSet(cache, keyId, key) ==
    {e \in cache : e.keyId # keyId} \union {[keyId |-> keyId, key |-> key]}

\* keyCache.delete(keyId)
KeyCacheDelete(cache, keyId) == {e \in cache : e.keyId # keyId}

\* a lookup that falls back to whatever key the cache holds
KeyCacheGetAny(cache, keyId) ==
    IF \E e \in cache : e.keyId = keyId
    THEN (CHOOSE e \in cache : e.keyId = keyId).key
    ELSE IF cache = {} THEN NoKey ELSE (CHOOSE e \in cache : TRUE).key

\* keyCache.get(keyId)
KeyCacheGet(cache, keyId) ==
    IF \E e \in cache : e.keyId = keyId
    THEN (CHOOSE e \in cache : e.keyId = keyId).key
    ELSE NoKey

\* self.postMessage({id, type: "success", result})
WkSuccess(id, res) == [id |-> id, type |-> "success", result |-> res]

\* self.postMessage({id, type: "error", error: error.message})
WkError(id, error) == [id |-> id, type |-> "error", error |-> error]

RemoveAt(q, k) == SubSeq(q, 1, k - 1) \o SubSeq(q, k + 1, Len(q))

wrkOthers == <<nonceVars, bufVars, codecVars, limVars, upVars, tokVars, srvVars, moreVars>>

WrkInit ==
    /\ keyCache = {}
    /\ wkTasks = <<>>
    /\ wkInbox = <<>>
    /\ wkOutbox = <<>>
    /\ messageId = 0
    /\ pendingMessages = {}
    /\ wkSess = [s \in WkSlots |-> NoSession]
    /\ wkKeyIds = 0
    /\ NonceIdle
    /\ BufIdle
    /\ CodecIdle
    /\ LimIdle
    /\ UpIdle
    /\ TokIdle
    /\ SrvIdle
    /\ MoreIdle

\* the message handler of the worker, from the dispatch of a message to its
\* first await of crypto.subtle, or to its answer when it awaits nothing
WrkReceive ==
    /\ wkInbox # <<>>
    /\ LET m == Head(wkInbox)
       IN  /\ wkInbox' = Tail(wkInbox)
           /\ CASE m.type = "set-master-key" ->
                    /\ wkTasks' = Append(wkTasks, [id |-> m.id, type |-> m.type,
                                                   key |-> m.data.masterKeyRaw, data |-> m.data])
                    /\ UNCHANGED <<keyCache, wkOutbox>>
                [] m.type = "release-key" ->
                    /\ keyCache' = KeyCacheDelete(keyCache, m.data.keyId)
                    /\ wkOutbox' = Append(wkOutbox, WkSuccess(m.id, [success |-> TRUE]))
                    /\ UNCHANGED wkTasks
                [] m.type \in WkBlockTypes ->
                    LET masterKey == KeyCacheGet(keyCache, m.data.keyId)
                    IN  IF masterKey = NoKey
                        THEN /\ wkOutbox' = Append(wkOutbox, WkError(m.id, "Master key not found"))
                             /\ UNCHANGED <<keyCache, wkTasks>>
                        ELSE /\ wkTasks' = Append(wkTasks, [id |-> m.id, type |-> m.type,
                                                            key |-> masterKey, data |-> m.data])
                             /\ UNCHANGED <<keyCache, wkOutbox>>
    /\ UNCHANGED <<messageId, pendingMessages, wkSess, wkKeyIds>>
    /\ UNCHANGED wrkOthers

\* what a handler posts when its crypto.subtle call has settled
WrkAnswer(t) ==
    LET globalIndex == t.data.globalBlockOffset + t.data.blockIndex
    IN  CASE t.type = "set-master-key" ->
              WkSuccess(t.id, [success |-> TRUE])
          [] t.type = "encrypt-block" ->
              WkSuccess(t.id, [type |-> "encrypted-block", blockIndex |-> t.data.blockIndex,
                               data |-> EncryptBlock(t.data.blockData, t.key, t.data.baseIv,
                                                     globalIndex)])
          [] t.type = "decrypt-block" ->
              LET d == DecryptBlock(t.data.blockData, t.key, t.data.baseIv, globalIndex)
              IN  IF d.ok
                  THEN WkSuccess(t.id, [type |-> "decrypted-block",
                                        blockIndex |-> t.data.blockIndex, data |-> d.data])
                  ELSE WkError(t.id, "OperationError")

\* the rest of a handler, from the settling of its crypto.subtle call
WrkFinish(k) ==
    /\ k \in 1..Len(wkTasks)
    /\ LET t == wkTasks[k]
       IN  /\ wkTasks' = RemoveAt(wkTasks, k)
           /\ keyCache' = IF t.type = "set-master-key"
                          THEN KeyCacheSet(keyCache, t.data.keyId, t.key)
                          ELSE keyCache
           /\ wkOutbox' = Append(wkOutbox, WrkAnswer(t))
    /\ UNCHANGED <<wkInbox, messageId, pendingMessages, wkSess, wkKeyIds>>
    /\ UNCHANGED wrkOthers

\* _sendMessage(type, data) on a bridge whose worker is ready
BridgeSend(type, data, owner, pending) ==
    /\ messageId' = messageId + 1
    /\ pendingMessages' = pending \union {[id |-> messageId + 1, owner |-> owner]}
    /\ wkInbox' = Append(wkInbox, [id |-> messageId + 1, type |-> type, data |-> data])

\* release-key is sent only when processStream ends without an error
ReleaseWantedOnSuccess(sess, outcome) == sess.masterKeyInitialized /\ outcome = "fulfilled"

\* _releaseKey: if (this.masterKeyInitialized)
ReleaseWanted(sess, outcome) == sess.masterKeyInitialized

\* the finally block of processStream: reader.releaseLock(), await this._releaseKey()
WkFinally(s, sess, outcome, pending) ==
    IF ReleaseWanted(sess, outcome)
    THEN /\ wkSess' = [wkSess EXCEPT ![s] = [sess EXCEPT !.pc = "awaitRelease",
                                                         !.outcome = outcome]]
         /\ BridgeSend("release-key", [keyId |-> sess.keyId], s, pending)
    ELSE /\ wkSess' = [wkSess EXCEPT ![s] = [sess EXCEPT !.pc = "settled",
                                                         !.outcome = outcome]]
         /\ pendingMessages' = pending
         /\ UNCHANGED <<messageId, wkInbox>>

\* the chunk the next stream object of slot s is made for: the transfer of
\* slot s has s - 1 chunks behind it when the behaviour begins
WkChunkIndex(s) == IF wkSess[s].pc = "none" THEN s - 1 ELSE wkSess[s].chunkIndex + 1

\* new WorkerStreamEncryptor(...) / new WorkerStreamDecryptor(...)
WkConstruct(s, kind) ==
    /\ wkSess[s].pc \in {"none", "settled"}
    /\ wkKeyIds < Len(WkUuids)
    /\ wkKeyIds' = wkKeyIds + 1
    /\ wkSess' = [wkSess EXCEPT ![s] =
            [kind |-> kind, keyId |-> WkUuids[wkKeyIds + 1], masterKey |-> WkMasterKey(s),
             baseIv |-> WkBaseIv,
             chunkIndex |-> WkChunkIndex(s),
             globalBlockOffset |-> GlobalBlockOffset([chunkIndex |-> WkChunkIndex(s),
                                                      chunkSize |-> WkSizes.chunkSize,
                                                      blockSize |-> WkSizes.blockSize]),
             masterKeyInitialized |-> FALSE, blockIndex |-> 0, blockData |-> <<>>,
             pc |-> "new", outcome |-> "none", runs |-> 0]]
    /\ UNCHANGED <<keyCache, wkTasks, wkInbox, wkOutbox, messageId, pendingMessages>>
    /\ UNCHANGED wrkOthers

\* processStream up to its first await of the bridge or of the reader; the
\* decryptor fetches first
WkProcessStream(s, fetchOk) ==
    /\ wkSess[s].pc \in {"new", "settled"}
    /\ wkSess[s].runs < MaxRuns
    /\ wkSess[s].kind = "enc" => fetchOk
    /\ LET sess == [wkSess[s] EXCEPT !.runs = @ + 1, !.blockIndex = 0, !.outcome = "none"]
       IN  IF ~fetchOk
           THEN /\ wkSess' = [wkSess EXCEPT ![s] = [sess EXCEPT !.pc = "settled",
                                                                !.outcome = "rejected"]]
                /\ UNCHANGED <<messageId, pendingMessages, wkInbox>>
           ELSE IF sess.masterKeyInitialized
           THEN /\ wkSess' = [wkSess EXCEPT ![s] = [sess EXCEPT !.pc = "reading"]]
                /\ UNCHANGED <<messageId, pendingMessages, wkInbox>>
           ELSE /\ wkSess' = [wkSess EXCEPT ![s] = [sess EXCEPT !.pc = "awaitSet"]]
                /\ BridgeSend("set-master-key",
                              [keyId |-> sess.keyId, masterKeyRaw |-> sess.masterKey],
                              s, pendingMessages)
    /\ UNCHANGED <<keyCache, wkTasks, wkOutbox, wkKeyIds>>
    /\ UNCHANGED wrkOthers

\* the ciphertext the storage backend holds for block k of the chunk
WkStored(sess, k) ==
    EncryptBlock(WkPlain(k), sess.masterKey, sess.baseIv, sess.globalBlockOffset + k)

\* the same with its last byte changed
WkTampered(sess, k) ==
    LET c == WkStored(sess, k)
    IN  [c EXCEPT ![Len(c)] = (c[Len(c)] + 1) % 256]

WkReads == {"block", "tampered", "done", "error"}

\* reader.read() and what follows it up to the next await
WkRead(s, what) ==
    /\ wkSess[s].pc = "reading"
    /\ LET sess == wkSess[s]
           blockData == IF sess.kind = "enc" THEN WkPlain(sess.blockIndex)
                        ELSE IF what = "tampered" THEN WkTampered(sess, sess.blockIndex)
                        ELSE WkStored(sess, sess.blockIndex)
       IN  CASE what \in {"block", "tampered"} ->
                 /\ sess.blockIndex < MaxWkBlocks
                 /\ what = "tampered" => sess.kind = "dec"
                 /\ wkSess' = [wkSess EXCEPT ![s].pc = "awaitBlock", ![s].blockData = blockData]
                 /\ BridgeSend(IF sess.kind = "enc" THEN "encrypt-block" ELSE "decrypt-block",
                               [keyId |-> sess.keyId, blockData |-> blockData,
                                baseIv |-> sess.baseIv,
                                globalBlockOffset |-> sess.globalBlockOffset,
                                blockIndex |-> sess.blockIndex],
                               s, pendingMessages)
             [] what = "done" -> WkFinally(s, sess, "fulfilled", pendingMessages)
             [] what = "error" -> WkFinally(s, sess, "rejected", pendingMessages)
    /\ UNCHANGED <<keyCache, wkTasks, wkOutbox, wkKeyIds>>
    /\ UNCHANGED wrkOthers

\* processStream from the settling of the bridge call it awaits
WkResume(s, r, pending) ==
    LET sess == wkSess[s]
    IN  CASE sess.pc = "awaitSet" /\ r.type = "success" ->
              /\ wkSess' = [wkSess EXCEPT ![s].pc = "reading",
                                          ![s].masterKeyInitialized = TRUE]
              /\ pendingMessages' = pending
              /\ UNCHANGED <<messageId, wkInbox>>
          [] sess.pc = "awaitBlock" /\ r.type = "success" ->
              /\ wkSess' = [wkSess EXCEPT ![s].pc = "reading",
                                          ![s].blockIndex = sess.blockIndex + 1]
              /\ pendingMessages' = pending
              /\ UNCHANGED <<messageId, wkInbox>>
          [] sess.pc \in {"awaitSet", "awaitBlock"} /\ r.type = "error" ->
              WkFinally(s, sess, "rejected", pending)
          [] sess.pc = "awaitRelease" ->
              /\ wkSess' = [wkSess EXCEPT ![s].pc = "settled",
                                          ![s].outcome = IF r.type = "error" THEN "rejected"
                                                         ELSE sess.outcome]
              /\ pendingMessages' = pending
              /\ UNCHANGED <<messageId, wkInbox>>

\* the message listener of the bridge
BridgeOnMessage ==
    /\ wkOutbox # <<>>
    /\ LET r == Head(wkOutbox)
           hit == {p \in pendingMessages : p.id = r.id}
       IN  /\ wkOutbox' = Tail(wkOutbox)
           /\ IF hit = {}
              THEN UNCHANGED <<messageId, pendingMessages, wkInbox, wkSess>>
              ELSE LET owner == (CHOOSE p \in hit : TRUE).owner
                   IN  IF owner = 0
                       THEN /\ pendingMessages' = pendingMessages \ hit
                            /\ UNCHANGED <<messageId, wkInbox, wkSess>>
                       ELSE WkResume(owner, r, pendingMessages \ hit)
    /\ UNCHANGED <<keyCache, wkTasks, wkKeyIds>>
    /\ UNCHANGED wrkOthers

\* bridge.encryptBlock / bridge.decryptBlock called with a keyId of the
\* caller's own making, without setMasterKey
WkDirectCall(type) ==
    /\ wkKeyIds < Len(WkUuids)
    /\ wkKeyIds' = wkKeyIds + 1
    /\ BridgeSend(type, [keyId |-> WkUuids[wkKeyIds + 1], blockData |-> WkPlain(0), baseIv |-> WkBaseIv,
                         globalBlockOffset |-> 0, blockIndex |-> 0], 0, pendingMessages)
    /\ UNCHANGED <<keyCache, wkTasks, wkOutbox, wkSess>>
    /\ UNCHANGED wrkOthers

WrkNext ==
    \/ \E s \in WkSlots, kind \in {"enc", "dec"} : WkConstruct(s, kind)
    \/ \E s \in WkSlots, fetchOk \in BOOLEAN : WkProcessStream(s, fetchOk)
    \/ \E s \in WkSlots, what \in WkReads : WkRead(s, what)
    \/ \E type \in WkBlockTypes : WkDirectCall(type)
    \/ WrkReceive
    \/ \E k \in 1..Len(WkUuids) : WrkFinish(k)
    \/ BridgeOnMessage

SpecWorker == WrkInit /\ [][WrkNext]_vars

WkCached(cache, keyId) == \E e \in cache : e.keyId = keyId

WkOwns(s, id) == \E p \in pendingMessages : p.id = id /\ p.owner = s

\* the worker dispatches the message at the head of its queue
WrkDispatches == wkInbox # <<>> /\ wkInbox' = Tail(wkInbox)

\* C18: an encrypt-block or decrypt-block request for a keyId without a
\* cached key is answered with an error message, and no encryption or
\* decryption is started for it, whatever other keys the cache holds.
KeylessRequestFails ==
    [][(/\ WrkDispatches
        /\ Head(wkInbox).type \in WkBlockTypes
        /\ ~WkCached(keyCache, Head(wkInbox).data.keyId)) =>
            /\ wkTasks' = wkTasks
            /\ Len(wkOutbox') = Len(wkOutbox) + 1
            /\ wkOutbox'[Len(wkOutbox')].id = Head(wkInbox).id
            /\ wkOutbox'[Len(wkOutbox')].type = "error"]_vars

\* an error answer to a stream object that runs a second time, after its key
\* was released, while the key of another keyId is cached
KeylessRequestWitness ==
    \E s \in WkSlots, k \in 1..Len(wkOutbox) :
        /\ wkSess[s].pc = "awaitBlock"
        /\ wkSess[s].runs = 2
        /\ WkOwns(s, wkOutbox[k].id)
        /\ wkOutbox[k].type = "error"
        /\ wkOutbox[k].error = "Master key not found"
        /\ keyCache # {}

\* the global index a stream object means for the block it waits for
WkGlobalIndex(sess) ==
    sess.chunkIndex * BlocksPerChunk(WkSizes.chunkSize, WkSizes.blockSize) + sess.blockIndex

\* what a stream object is owed for the block it waits for
WkOwed(sess) ==
    IF sess.kind = "enc"
    THEN EncryptBlock(WkPlain(sess.blockIndex), sess.masterKey, sess.baseIv, WkGlobalIndex(sess))
    ELSE WkPlain(sess.blockIndex)

SessionsUseOwnKey ==
    \A s \in WkSlots :
        wkSess[s].pc = "awaitBlock" =>
            /\ \A k \in 1..Len(wkTasks) :
                  WkOwns(s, wkTasks[k].id) =>
                      /\ wkTasks[k].key = wkSess[s].masterKey
                      /\ wkTasks[k].data.globalBlockOffset + wkTasks[k].data.blockIndex
                            = WkGlobalIndex(wkSess[s])
            /\ \A k \in 1..Len(wkOutbox) :
                  (WkOwns(s, wkOutbox[k].id) /\ wkOutbox[k].type = "success") =>
                      wkOutbox[k].result.data = WkOwed(wkSess[s])

OtherEntriesUntouched ==
    \A keyId \in {WkUuids[k] : k \in 1..Len(WkUuids)} :
        {e \in keyCache : e.keyId = keyId} # {e \in keyCache' : e.keyId = keyId} =>
            \/ /\ WrkDispatches
               /\ Head(wkInbox).type = "release-key"
               /\ Head(wkInbox).data.keyId = keyId
            \/ \E k \in 1..Len(wkTasks) :
                  /\ wkTasks' = RemoveAt(wkTasks, k)
                  /\ wkTasks[k].type = "set-master-key"
                  /\ wkTasks[k].data.keyId = keyId

\* C19: with the messages of two stream objects interleaved in every way, a
\* block call is worked with the key its own object sent in set-master-key
\* and at the global index of its own globalBlockOffset and blockIndex, and a
\* step of the worker changes the cache entry of a keyId only when it is the
\* set-master-key or the release-key of that keyId.
SessionIsolation == []SessionsUseOwnKey /\ [][OtherEntriesUntouched]_vars

\* two objects, both waiting for a block, both answers in the queue, one of
\* them for its second block
SessionIsolationWitness ==
    /\ \A s \in 1..2 : wkSess[s].pc = "awaitBlock" /\ WkCached(keyCache, wkSess[s].keyId)
    /\ wkSess[1].masterKey # wkSess[2].masterKey
    /\ wkSess[1].globalBlockOffset # wkSess[2].globalBlockOffset
    /\ wkSess[1].blockIndex = 1
    /\ Len(wkOutbox) = 2
    /\ WkOwns(2, wkOutbox[1].id) /\ wkOutbox[1].type = "success"
    /\ WkOwns(1, wkOutbox[2].id) /\ wkOutbox[2].type = "success"

WkAtRest(s) == wkSess[s].pc \in {"none", "new", "settled"}

\* C20: when processStream has settled after the key was installed, the
\* worker's key cache holds no entry for the keyId of the object, and when
\* no processStream call is running the cache is empty.
SettledMeansReleased ==
    /\ \A s \in WkSlots :
          (wkSess[s].pc = "settled" /\ wkSess[s].masterKeyInitialized) =>
              ~WkCached(keyCache, wkSess[s].keyId)
    /\ (\A s \in WkSlots : WkAtRest(s)) => keyCache = {}

\* a decryptor that settled with an error after one good block and one that
\* failed authentication, and an encryptor that settled with success
SettledWitness ==
    \E s, t \in WkSlots :
        /\ wkSess[s].pc = "settled" /\ wkSess[s].kind = "dec"
        /\ wkSess[s].masterKeyInitialized
        /\ wkSess[s].outcome = "rejected" /\ wkSess[s].blockIndex = 1
        /\ wkSess[s].runs = 1
        /\ wkSess[t].pc = "settled" /\ wkSess[t].kind = "enc"
        /\ wkSess[t].outcome = "fulfilled" /\ wkSess[t].blockIndex = 2
        /\ wkInbox = <<>> /\ wkOutbox = <<>> /\ pendingMessages = {}

(***************************************************************************)
(* SpecStream: processStream of the four stream classes, with the lock of  *)
(* the stream reader.  getReader() locks the stream to the reader; only    *)
(* reader.releaseLock() unlocks it.  Lengths stand for the bytes.          *)
(***************************************************************************)
MaxStBytes == 3
MaxStBlockSize == 2

\* getEncryptorClass()
GetEncryptorClass(useWorker) ==
    IF useWorker THEN "WorkerStreamEncryptor" ELSE "StreamEncryptor"

\* getDecryptorClass()
GetDecryptorClass(useWorker) ==
    IF useWorker THEN "WorkerStreamDecryptor" ELSE "StreamDecryptor"

StIsWorkerClass(c) == c \in {"WorkerStreamEncryptor", "WorkerStreamDecryptor"}
StIsDecryptor(c) == c \in {"WorkerStreamDecryptor", "StreamDecryptor"}

\* the classes whose processStream wraps its loop in try { } finally { }
StHasFinally(c) == StIsWorkerClass(c)

\* how processStream leaves: through the finally block where the class has
\* one (reader.releaseLock(); await this._releaseKey()), directly otherwise
StLeave(how, error) ==
    /\ stPc' = how
    /\ stError' = error
    /\ IF StHasFinally(stClass)
       THEN /\ stLocked' = FALSE
            /\ stKeyCalls' = IF stKeyInit THEN Append(stKeyCalls, "releaseKey")
                                          ELSE stKeyCalls
       ELSE UNCHANGED <<stLocked, stKeyCalls>>

\* the block loop condition, evaluated with the given locals: the next
\* await is a block encryption/decryption, the next read, or nothing
StContinue(buffered, done, wasLast) ==
    IF ~wasLast /\ (buffered >= stBlockSize \/ (done /\ buffered > 0))
    THEN /\ stPc' = "block"
         /\ stIsLast' = (done /\ buffered < stBlockSize)
         /\ UNCHANGED <<stLocked, stKeyCalls, stError>>
    ELSE IF done
    THEN /\ StLeave("returned", "")
         /\ stIsLast' = wasLast
    ELSE /\ stPc' = "read"
         /\ stIsLast' = wasLast
         /\ UNCHANGED <<stLocked, stKeyCalls, stError>>

strOthers == <<nonceVars, bufVars, codecVars, limVars, upVars, tokVars, srvVars, wrkVars,
               dlVars, brVars, xfVars, rtVars, lastVars>>

\* new XClass(...) and the call of processStream up to its first await
StStart(useWorker, decrypts, size, blockSize) ==
    /\ stPc \in {"idle", "returned", "threw"}
    /\ LET c == IF decrypts THEN GetDecryptorClass(useWorker)
                            ELSE GetEncryptorClass(useWorker)
       IN  /\ stClass' = c
           /\ stLocked' = ~decrypts
           /\ stPc' = IF decrypts THEN "fetch"
                      ELSE IF StIsWorkerClass(c) THEN "key" ELSE "read"
    /\ stLeft' = size
    /\ stBlockSize' = blockSize
    /\ stBuffered' = 0
    /\ stDone' = FALSE
    /\ stIsLast' = FALSE
    /\ stBlockIndex' = 0
    /\ stKeyInit' = FALSE
    /\ stKeyCalls' = <<>>
    /\ stError' = ""
    /\ UNCHANGED strOthers

\* await fetch(url) settles
StFetch(outcome) ==
    /\ stPc = "fetch"
    /\ IF outcome = "ok"
       THEN /\ stLocked' = TRUE
            /\ stPc' = IF StIsWorkerClass(stClass) THEN "key" ELSE "read"
            /\ UNCHANGED stError
       ELSE /\ stPc' = "threw"
            /\ stError' = outcome
            /\ UNCHANGED stLocked
    /\ UNCHANGED <<stClass, stLeft, stBuffered, stDone, stIsLast, stBlockIndex, stBlockSize,
                   stKeyInit, stKeyCalls, strOthers>>

\* await this._initMasterKey() settles
StInitKey(ok) ==
    /\ stPc = "key"
    /\ IF ok
       THEN /\ stKeyInit' = TRUE
            /\ stKeyCalls' = Append(stKeyCalls, "setMasterKey")
            /\ stPc' = "read"
            /\ UNCHANGED <<stLocked, stError>>
       ELSE /\ stKeyInit' = FALSE
            /\ StLeave("threw", "set-master-key")
    /\ UNCHANGED <<stClass, stLeft, stBuffered, stDone, stIsLast, stBlockIndex, stBlockSize,
                   strOthers>>

\* await reader.read() settles: n bytes, the end of the stream, or an error
StRead(n, ok) ==
    /\ stPc = "read"
    /\ n <= stLeft
    /\ (n = 0) = (stLeft = 0 \/ ~ok)
    /\ IF ok
       THEN /\ stLeft' = stLeft - n
            /\ stBuffered' = stBuffered + n
            /\ stDone' = (n = 0)
            /\ StContinue(stBuffered + n, n = 0, FALSE)
       ELSE /\ StLeave("threw", "read")
            /\ UNCHANGED <<stLeft, stBuffered, stDone, stIsLast>>
    /\ UNCHANGED <<stClass, stBlockIndex, stBlockSize, stKeyInit, strOthers>>

\* the block was consumed from the buffer and its encryption or decryption
\* settles; an encryptor goes on at once, a decryptor awaits onDecrypted
StBlock(ok) ==
    /\ stPc = "block"
    /\ LET taken == IF stIsLast THEN stBuffered ELSE stBlockSize
       IN  /\ stBuffered' = stBuffered - taken
           /\ IF ~ok
              THEN /\ StLeave("threw", "block")
                   /\ UNCHANGED <<stBlockIndex, stIsLast>>
              ELSE IF StIsDecryptor(stClass)
              THEN /\ stPc' = "sink"
                   /\ UNCHANGED <<stBlockIndex, stIsLast, stLocked, stKeyCalls, stError>>
              ELSE /\ stBlockIndex' = stBlockIndex + 1
                   /\ StContinue(stBuffered - taken, stDone, stIsLast)
    /\ UNCHANGED <<stClass, stLeft, stDone, stBlockSize, stKeyInit, strOthers>>

\* await onDecrypted(decrypted) settles
StSink(ok) ==
    /\ stPc = "sink"
    /\ IF ok
       THEN /\ stBlockIndex' = stBlockIndex + 1
            /\ StContinue(stBuffered, stDone, stIsLast)
       ELSE /\ StLeave("threw", "sink")
            /\ UNCHANGED <<stBlockIndex, stIsLast>>
    /\ UNCHANGED <<stClass, stLeft, stBuffered, stDone, stBlockSize, stKeyInit, strOthers>>

StrInit ==
    /\ StIdle
    /\ NonceIdle /\ BufIdle /\ CodecIdle /\ LimIdle /\ UpIdle /\ TokIdle /\ SrvIdle
    /\ WrkIdle /\ DlIdle /\ BrIdle /\ XfIdle /\ RtIdle /\ LastIdle

StrNext ==
    \/ \E useWorker \in BOOLEAN, decrypts \in BOOLEAN,
          size \in 0..MaxStBytes, blockSize \in 1..MaxStBlockSize :
          StStart(useWorker, decrypts, size, blockSize)
    \/ \E outcome \in {"ok", "fetch", "status"} : StFetch(outcome)
    \/ \E ok \in BOOLEAN : StInitKey(ok)
    \/ \E n \in 0..MaxStBytes, ok \in BOOLEAN : StRead(n, ok)
    \/ \E ok \in BOOLEAN : StBlock(ok)
    \/ \E ok \in BOOLEAN : StSink(ok)

SpecStream == StrInit /\ [][StrNext]_vars

\* C21: whenever processStream has left, by return or by throw, the stream
\* reader it acquired holds no lock, whichever of the four classes ran.
ReaderLockReleased == stPc \in {"returned", "threw"} => ~stLocked

(***************************************************************************)
(* SpecDownload: handleDownload of the page with FileDownloader.download   *)
(* and _downloadChunk under withRetry, writing to the output sink          *)
(* (a FileSystemWritableFileStream).  The stored object of chunk i holds   *)
(* the blocks the upload encrypted; an attempt gets them block by block,   *)
(* intact or corrupted on the way, or fails.  A block is read and          *)
(* decrypted in one step, written in the next.                             *)
(***************************************************************************)
MaxDlSize == 4
MaxDlChunkSize == 2
MaxDlBlockSize == 2

\* the key of the upload, and another well-formed key
DlKeys == {UpKey, UpKey + 1}

DlStatuses == {404, 500}

\* fetch() rejects
DlFetchRejected == [name |-> "TypeError", message |-> "Failed to fetch"]

\* new Error(`下载失败: ${res.status}`)
DlBadStatus(status) == [name |-> "Error", message |-> "download failed: " \o ToString(status)]

\* reader.read() rejects
DlReadRejected == [name |-> "TypeError", message |-> "network error"]

\* what crypto.subtle.decrypt rejects with when the tag does not verify
DlOperationError == [name |-> "OperationError", message |-> "operation-specific reason"]

\* what the awaited decryptBlock rejects with: the main-thread class lets the
\* DOMException through; the worker posts error.message and the bridge
\* rejects with new Error(error)
DlDecryptError(useWorker) ==
    IF useWorker THEN [name |-> "Error", message |-> DlOperationError.message]
                 ELSE DlOperationError

\* importMasterKey(decodeBase64(masterKeyStr)) rejects
DlImportError == [name |-> "DataError", message |-> "invalid key"]

\* a method of the sink rejects
DlSinkError(method) == [name |-> "InvalidStateError", message |-> method]

\* the error of decryptChunk, the whole-chunk decryption of the legacy path:
\* `分块 ${chunkIndex} 解密失败。数据可能已被篡改或密钥错误。`
DecryptChunkError(chunkIndex) ==
    [name |-> "Error",
     message |-> "chunk " \o ToString(chunkIndex)
                 \o " failed to decrypt: data tampered with or wrong key"]

\* metaData of a file of `size` bytes as the uploader wrote it
DlMetaData(size, chunkSize, blockSize) ==
    [size |-> size, chunkSize |-> chunkSize, encryptionBlockSize |-> blockSize,
     totalChunks |-> CeilDiv(size, chunkSize)]

\* the file: byte k has the value k
DlPlain(size) == [k \in 1..size |-> k]

DlChunkLength(meta, chunkIndex) ==
    Min(meta.chunkSize, meta.size - chunkIndex * meta.chunkSize)

DlBlockCount(meta, chunkIndex) ==
    CeilDiv(DlChunkLength(meta, chunkIndex), meta.encryptionBlockSize)

DlBlockPlain(meta, chunkIndex, k) ==
    LET from == chunkIndex * meta.chunkSize + k * meta.encryptionBlockSize
        to == Min(from + meta.encryptionBlockSize,
                  chunkIndex * meta.chunkSize + DlChunkLength(meta, chunkIndex))
    IN  SubSeq(DlPlain(meta.size), from + 1, to)

\* block k of the stored object of the chunk, as the encryptor made it
DlStored(meta, chunkIndex, k) ==
    EncryptBlock(DlBlockPlain(meta, chunkIndex, k), UpKey, UpBaseIv,
                 GlobalBlockOffset([chunkIndex |-> chunkIndex, chunkSize |-> meta.chunkSize,
                                    blockSize |-> meta.encryptionBlockSize]) + k)

\* writable.write(bytes) at the position pos
DlWriteAt(data, pos, bytes) ==
    [k \in 1..(IF Len(data) > pos + Len(bytes) THEN Len(data) ELSE pos + Len(bytes)) |->
        IF k > pos /\ k <= pos + Len(bytes) THEN bytes[k - pos]
        ELSE IF k <= Len(data) THEN data[k] ELSE 0]

dlOthers == <<nonceVars, bufVars, codecVars, limVars, upVars, tokVars, srvVars, wrkVars,
              strVars, brVars, xfVars, rtVars, lastVars>>

DlInit ==
    /\ DlIdle
    /\ NonceIdle /\ BufIdle /\ CodecIdle /\ LimIdle /\ UpIdle /\ TokIdle /\ SrvIdle
    /\ WrkIdle /\ StIdle /\ BrIdle /\ XfIdle /\ RtIdle /\ LastIdle

\* A plausible slip: the catch block closes the sink.
DlCatchCallClose == "close"

\* handleDownload: catch (err) { await writable.abort(); throw err; }
DlCatchCall == "abort"

\* download() rejected with err: the inner catch block of handleDownload up
\* to its await
DlReject(err) ==
    /\ dlPc' = "discard"
    /\ dlThrown' = err
    /\ dlCalls' = Append(dlCalls, DlCatchCall)

\* the running attempt throws err: the catch block of withRetry, and what a
\* throw of withRetry leads to
DlCatch(err, cause) ==
    /\ dlLastError' = NextLastError(dlLastError, err)
    /\ dlCause' = cause
    /\ IF ShouldRetry(err, dlAttempt)
       THEN /\ dlPc' = "backoff"
            /\ UNCHANGED <<dlThrown, dlCalls>>
       ELSE DlReject(dlLastError')

\* handleDownload from createWritable on, download() up to importMasterKey
DlStart(size, chunkSize, blockSize, key, useWorker, opened) ==
    /\ dlPc = "idle"
    /\ dlMeta' = DlMetaData(size, chunkSize, blockSize)
    /\ dlKey' = key
    /\ dlUseWorker' = useWorker
    /\ IF opened
       THEN /\ dlSink' = [state |-> "open", data |-> <<>>, pos |-> 0]
            /\ dlPc' = "import"
            /\ UNCHANGED <<dlError, dlCause>>
       ELSE /\ dlPc' = "failed"
            /\ dlError' = DlSinkError("createWritable")
            /\ dlCause' = "createWritable"
            /\ UNCHANGED dlSink
    /\ UNCHANGED <<dlI, dlCumulative, dlChunkBase, dlChunkCum, dlAttempt, dlLastError,
                   dlBlockIndex, dlReceived, dlDownloadedBytes, dlInHand, dlCalls, dlThrown,
                   dlLog, dlOthers>>

\* download(): the loop test for chunk i with the offset reached, then
\* _downloadChunk up to the seek of its first attempt, or the return of
\* download() and the close of the sink
DlEnterChunk(chunkIndex, cumulativeBytes) ==
    /\ dlI' = chunkIndex
    /\ dlCumulative' = cumulativeBytes
    /\ IF chunkIndex < dlMeta.totalChunks
       THEN /\ dlChunkBase' = cumulativeBytes
            /\ dlChunkCum' = cumulativeBytes
            /\ dlAttempt' = 0
            /\ dlLog' = <<>>
            /\ dlPc' = "seek"
            /\ UNCHANGED dlCalls
       ELSE /\ dlPc' = "close"
            /\ dlCalls' = Append(dlCalls, "close")
            /\ UNCHANGED <<dlChunkBase, dlChunkCum, dlAttempt, dlLog>>

\* await importMasterKey(...) settles
DlImportKey(ok) ==
    /\ dlPc = "import"
    /\ IF ok
       THEN /\ DlEnterChunk(0, 0)
            /\ UNCHANGED <<dlThrown, dlCause>>
       ELSE /\ DlReject(DlImportError)
            /\ dlCause' = "import"
            /\ UNCHANGED <<dlI, dlCumulative, dlChunkBase, dlChunkCum, dlAttempt, dlLog>>
    /\ UNCHANGED <<dlMeta, dlKey, dlUseWorker, dlLastError, dlBlockIndex, dlReceived,
                   dlDownloadedBytes, dlInHand, dlSink, dlError, dlOthers>>

\* A plausible slip: the attempt writes on from where the sink stands.
DlSeekTargetStay(pos, chunkBaseBytes) == pos

\* await writable.seek(chunkBaseBytes)
DlSeekTarget(pos, chunkBaseBytes) == chunkBaseBytes

\* the seek settles; the decryptor is made and processStream fetches
DlSeek(ok) ==
    /\ dlPc = "seek"
    /\ ok => dlSink.state = "open"
    /\ IF ok
       THEN /\ dlSink' = [dlSink EXCEPT !.pos = DlSeekTarget(dlSink.pos, dlChunkBase)]
            /\ dlBlockIndex' = 0
            /\ dlReceived' = 0
            /\ dlPc' = "fetch"
            /\ UNCHANGED <<dlLastError, dlCause, dlThrown, dlCalls>>
       ELSE /\ DlCatch(DlSinkError("seek"), "seek")
            /\ UNCHANGED <<dlSink, dlBlockIndex, dlReceived>>
    /\ UNCHANGED <<dlMeta, dlKey, dlUseWorker, dlI, dlCumulative, dlChunkBase, dlChunkCum,
                   dlAttempt, dlDownloadedBytes, dlInHand, dlError, dlLog, dlOthers>>

\* await fetch(url) settles: status 0 stands for a rejection
DlFetch(status) ==
    /\ dlPc = "fetch"
    /\ IF status = 200
       THEN /\ dlPc' = "read"
            /\ UNCHANGED <<dlLastError, dlCause, dlThrown, dlCalls>>
       ELSE IF status = 0
       THEN DlCatch(DlFetchRejected, "fetch")
       ELSE DlCatch(DlBadStatus(status), "status")
    /\ UNCHANGED <<dlMeta, dlKey, dlUseWorker, dlI, dlCumulative, dlChunkBase, dlChunkCum,
                   dlAttempt, dlBlockIndex, dlReceived, dlDownloadedBytes, dlInHand, dlSink,
                   dlError, dlLog, dlOthers>>

\* A plausible slip: a block that fails to decrypt is passed on.
DlBlockRejectsNever(r) == FALSE

\* await decryptBlock(...) rejects when crypto.subtle.decrypt does
DlBlockRejects(r) == ~r.ok

\* reader.read() settles with the next block of the body, intact or with
\* its last byte changed, and the block is decrypted
DlReadBlock(tampered) ==
    /\ dlPc = "read"
    /\ dlBlockIndex < DlBlockCount(dlMeta, dlI)
    /\ LET stored == DlStored(dlMeta, dlI, dlBlockIndex)
           blockData == IF tampered
                        THEN [stored EXCEPT ![Len(stored)] = (stored[Len(stored)] + 1) % 256]
                        ELSE stored
           globalIndex == GlobalBlockOffset([chunkIndex |-> dlI,
                                             chunkSize |-> dlMeta.chunkSize,
                                             blockSize |-> dlMeta.encryptionBlockSize])
                          + dlBlockIndex
           r == DecryptBlock(blockData, dlKey, UpBaseIv, globalIndex)
       IN  /\ dlReceived' = dlReceived + Len(blockData)
           /\ dlDownloadedBytes' = dlChunkBase + dlReceived'
           /\ dlLog' = Append(dlLog, <<dlAttempt, dlBlockIndex,
                                       IF r.ok THEN "decrypted" ELSE "rejected">>)
           /\ IF DlBlockRejects(r)
              THEN /\ DlCatch(DlDecryptError(dlUseWorker), "decrypt")
                   /\ UNCHANGED dlInHand
              ELSE /\ dlInHand' = r.data
                   /\ dlPc' = "write"
                   /\ UNCHANGED <<dlLastError, dlCause, dlThrown, dlCalls>>
    /\ UNCHANGED <<dlMeta, dlKey, dlUseWorker, dlI, dlCumulative, dlChunkBase, dlChunkCum,
                   dlAttempt, dlBlockIndex, dlSink, dlError, dlOthers>>

\* reader.read() rejects
DlReadFail ==
    /\ dlPc = "read"
    /\ DlCatch(DlReadRejected, "read")
    /\ UNCHANGED <<dlMeta, dlKey, dlUseWorker, dlI, dlCumulative, dlChunkBase, dlChunkCum,
                   dlAttempt, dlBlockIndex, dlReceived, dlDownloadedBytes, dlInHand, dlSink,
                   dlError, dlLog, dlOthers>>

\* reader.read() reports done: processStream, withRetry and _downloadChunk
\* return; download() goes to the next chunk or returns
DlReadDone ==
    /\ dlPc = "read"
    /\ dlBlockIndex = DlBlockCount(dlMeta, dlI)
    /\ DlEnterChunk(dlI + 1, dlChunkCum)
    /\ UNCHANGED <<dlMeta, dlKey, dlUseWorker, dlLastError, dlBlockIndex, dlReceived,
                   dlDownloadedBytes, dlInHand, dlSink, dlThrown, dlError, dlCause, dlOthers>>

\* await writable.write(decrypted) settles
DlWrite(ok) ==
    /\ dlPc = "write"
    /\ ok => dlSink.state = "open"
    /\ IF ok
       THEN /\ dlSink' = [dlSink EXCEPT !.data = DlWriteAt(dlSink.data, dlSink.pos, dlInHand),
                                        !.pos = dlSink.pos + Len(dlInHand)]
            /\ dlChunkCum' = dlChunkCum + Len(dlInHand)
            /\ dlBlockIndex' = dlBlockIndex + 1
            /\ dlLog' = Append(dlLog, <<dlAttempt, dlBlockIndex, "written">>)
            /\ dlPc' = "read"
            /\ UNCHANGED <<dlLastError, dlCause, dlThrown, dlCalls>>
       ELSE /\ dlSink' = [dlSink EXCEPT !.state = "errored"]
            /\ DlCatch(DlSinkError("write"), "write")
            /\ UNCHANGED <<dlChunkCum, dlBlockIndex, dlLog>>
    /\ dlInHand' = <<>>
    /\ UNCHANGED <<dlMeta, dlKey, dlUseWorker, dlI, dlCumulative, dlChunkBase, dlAttempt,
                   dlReceived, dlDownloadedBytes, dlError, dlOthers>>

\* the delay of withRetry has passed: fn is called again
DlBackoffElapsed ==
    /\ dlPc = "backoff"
    /\ dlAttempt' = dlAttempt + 1
    /\ dlChunkCum' = dlChunkBase
    /\ dlPc' = "seek"
    /\ UNCHANGED <<dlMeta, dlKey, dlUseWorker, dlI, dlCumulative, dlChunkBase, dlLastError,
                   dlBlockIndex, dlReceived, dlDownloadedBytes, dlInHand, dlSink, dlCalls,
                   dlThrown, dlError, dlCause, dlLog, dlOthers>>

\* await writable.close() settles
DlClose(ok) ==
    /\ dlPc = "close"
    /\ IF ok
       THEN /\ dlSink' = [dlSink EXCEPT !.state = "closed"]
            /\ dlPc' = "done"
            /\ UNCHANGED <<dlThrown, dlCalls, dlCause>>
       ELSE /\ dlSink' = [dlSink EXCEPT !.state = "errored"]
            /\ DlReject(DlSinkError("close"))
            /\ dlCause' = "close"
    /\ UNCHANGED <<dlMeta, dlKey, dlUseWorker, dlI, dlCumulative, dlChunkBase, dlChunkCum,
                   dlAttempt, dlLastError, dlBlockIndex, dlReceived, dlDownloadedBytes,
                   dlInHand, dlError, dlLog, dlOthers>>

\* the call of the catch block settles; the error is thrown on to the outer
\* catch block, which shows it
DlDiscard(ok) ==
    /\ dlPc = "discard"
    /\ IF ok
       THEN /\ dlSink' = [dlSink EXCEPT !.state = IF dlCalls[Len(dlCalls)] = "abort"
                                                  THEN "aborted" ELSE "closed"]
            /\ dlError' = dlThrown
            /\ UNCHANGED dlCause
       ELSE /\ dlError' = DlSinkError(dlCalls[Len(dlCalls)])
            /\ dlCause' = "discard"
            /\ UNCHANGED dlSink
    /\ dlPc' = "failed"
    /\ UNCHANGED <<dlMeta, dlKey, dlUseWorker, dlI, dlCumulative, dlChunkBase, dlChunkCum,
                   dlAttempt, dlLastError, dlBlockIndex, dlReceived, dlDownloadedBytes,
                   dlInHand, dlCalls, dlThrown, dlLog, dlOthers>>

DlNext ==
    \/ \E size \in 1..MaxDlSize, blockSize \in 1..MaxDlBlockSize, key \in DlKeys,
          useWorker \in BOOLEAN, opened \in BOOLEAN :
          DlStart(size, MaxDlChunkSize, blockSize, key, useWorker, opened)
    \/ \E ok \in BOOLEAN : DlImportKey(ok)
    \/ \E ok \in BOOLEAN : DlSeek(ok)
    \/ \E status \in {0, 200} \cup DlStatuses : DlFetch(status)
    \/ \E tampered \in BOOLEAN : DlReadBlock(tampered)
    \/ DlReadFail
    \/ DlReadDone
    \/ \E ok \in BOOLEAN : DlWrite(ok)
    \/ DlBackoffElapsed
    \/ \E ok \in BOOLEAN : DlClose(ok)
    \/ \E ok \in BOOLEAN : DlDiscard(ok)

SpecDownload == DlInit /\ [][DlNext]_vars

\* download() has rejected: withRetry threw for a chunk, or the key import failed
DlDownloadRejected == dlPc # "idle" /\ dlThrown # DlNoError /\ dlI < dlMeta.totalChunks

\* download() has resolved
DlDownloadResolved == dlPc # "idle" /\ dlI = dlMeta.totalChunks

\* C22: once download() has rejected, abort() has been called on the sink and
\* close() has not, and no error is shown before that; close() is called
\* only when every chunk was decrypted and written.
SinkDiscardedOnFailure ==
    /\ DlDownloadRejected => dlCalls = <<"abort">>
    /\ (dlError # DlNoError /\ dlSink.state # "none") => dlCalls[Len(dlCalls)] = "abort"
    /\ \A k \in 1..Len(dlCalls) :
          dlCalls[k] = "close" => /\ DlDownloadResolved
                                  /\ dlSink.data = DlPlain(dlMeta.size)

\* a block of the second chunk failed to decrypt on the last attempt, after
\* the first chunk was written: the sink was aborted and the error shown
SinkDiscardedWitness ==
    /\ dlPc = "failed"
    /\ dlCause = "decrypt"
    /\ dlI = 1
    /\ Len(dlSink.data) > 0
    /\ dlSink.state = "aborted"
    /\ dlError = dlThrown

\* an error that says "tampered or wrong key" and names the chunk
DlIsIntegrityError(e, chunkIndex) ==
    e.name = "IntegrityError" \/ e = DecryptChunkError(chunkIndex)

\* C23: a download that failed because a block did not authenticate shows
\* an integrity error naming the chunk.
DecryptFailureIsIntegrityError ==
    (dlPc = "failed" /\ dlCause = "decrypt") => DlIsIntegrityError(dlError, dlI)

\* C24: within the attempts for a chunk, nothing is decrypted or written in an
\* attempt after a block of it was rejected, no block is decrypted twice in
\* one attempt, and every attempt starts by decrypting block 0.
NoBlockLevelRetry ==
    \A b \in 1..Len(dlLog) :
       /\ \A a \in 1..(b - 1) :
             /\ dlLog[a][3] = "rejected" => dlLog[b][1] > dlLog[a][1]
             /\ (dlLog[a][1] = dlLog[b][1] /\ dlLog[a][2] = dlLog[b][2])
                   => (dlLog[a][3] = "decrypted" /\ dlLog[b][3] = "written")
       /\ (b = 1 \/ dlLog[b - 1][1] # dlLog[b][1])
             => (dlLog[b][2] = 0 /\ dlLog[b][3] # "written")

\* the second block of a chunk was rejected in the first attempt, and the
\* second attempt has decrypted and written block 0 again
NoBlockLevelRetryWitness ==
    \E a, b \in 1..Len(dlLog) :
       /\ a < b
       /\ dlLog[a] = <<0, 1, "rejected">>
       /\ dlLog[b] = <<1, 0, "written">>

\* the plaintext length of the chunks before chunkIndex
DlOffsetOf(meta, chunkIndex) == Min(chunkIndex * meta.chunkSize, meta.size)

\* C25: an attempt that has done its seek stands at the plaintext offset of
\* its chunk with the chunk's byte count reset; when download() has
\* resolved, the sink holds the whole plaintext and the offset reached is
\* its length.
ChunksPlacedInOrder ==
    /\ dlPc = "fetch" => /\ dlSink.pos = DlOffsetOf(dlMeta, dlI)
                         /\ dlChunkBase = DlOffsetOf(dlMeta, dlI)
                         /\ dlChunkCum = dlChunkBase
    /\ DlDownloadResolved => /\ dlSink.data = DlPlain(dlMeta.size)
                             /\ dlCumulative = dlMeta.size

\* a two-chunk download is done whose last chunk needed a second attempt
\* after the first had written a block
ChunksPlacedWitness ==
    /\ dlPc = "done"
    /\ dlI = 2
    /\ \E a, b \in 1..Len(dlLog) :
          /\ a < b
          /\ dlLog[a] = <<0, 0, "written">>
          /\ dlLog[b][1] >= 1

(***************************************************************************)
(* SpecBridge: the life of a CryptoWorkerBridge: init() and the ready      *)
(* notice, _sendMessage, the message and error listeners, and the workers  *)
(* it made.  A worker that raises an error event handles nothing more;     *)
(* what it posted before is still delivered.  SpecBridgeFair adds that     *)
(* workers, deliveries and resumed awaits proceed: weak fairness of every  *)
(* step but the start of a call and the crash.                             *)
(***************************************************************************)
MaxBrCalls == 2

brOthers == <<nonceVars, bufVars, codecVars, limVars, upVars, tokVars, srvVars, wrkVars,
              strVars, dlVars, xfVars, rtVars, lastVars>>

BrInit ==
    /\ BrIdle
    /\ NonceIdle /\ BufIdle /\ CodecIdle /\ LimIdle /\ UpIdle /\ TokIdle /\ SrvIdle
    /\ WrkIdle /\ StIdle /\ DlIdle /\ XfIdle /\ RtIdle /\ LastIdle

\* const id = ++this.messageId; pendingMessages.set(id, ...);
\* this.worker.postMessage({id, type, data}, transferables), for the call c
\* with this.worker = null postMessage throws a TypeError inside the promise
\* executor: the promise is rejected and the entry stays in the map
BrPost(c, calls) ==
    LET id == brMessageId + 1
    IN  /\ brMessageId' = id
        /\ brPending' = brPending \cup {id}
        /\ IF brWorker = 0
           THEN /\ UNCHANGED brWorkers
                /\ brCalls' = [calls EXCEPT ![c] = [state |-> "rejected", wait |-> 0,
                                                    id |-> id, to |-> 0]]
           ELSE /\ brWorkers' = [brWorkers EXCEPT ![brWorker].inbox = Append(@, id)]
                /\ brCalls' = [calls EXCEPT ![c] = [state |-> "posted", wait |-> 0,
                                                    id |-> id, to |-> brWorker]]

\* a call of _sendMessage up to its first await or to the posted message;
\* init() makes a worker when the bridge is not ready
BrSend ==
    /\ Len(brCalls) < MaxBrCalls
    /\ LET c == Len(brCalls) + 1
           calls == Append(brCalls, [state |-> "init", wait |-> 0, id |-> 0, to |-> 0])
       IN  IF ~brReady
           THEN /\ brWorkers' = Append(brWorkers, [state |-> "loading", inbox |-> <<>>,
                                                   readyPromise |-> "pending",
                                                   fresh |-> TRUE])
                /\ brWorker' = Len(brWorkers) + 1
                /\ brCalls' = [calls EXCEPT ![c].wait = Len(brWorkers) + 1]
                /\ UNCHANGED <<brMessageId, brPending>>
           ELSE /\ BrPost(c, calls)
                /\ UNCHANGED brWorker
    /\ UNCHANGED <<brReady, brOutbox, brOthers>>

\* await this.init() settles for the call c
BrInitSettled(c) ==
    /\ c \in 1..Len(brCalls)
    /\ brCalls[c].state = "init"
    /\ brWorkers[brCalls[c].wait].readyPromise # "pending"
    /\ IF brWorkers[brCalls[c].wait].readyPromise = "resolved"
       THEN BrPost(c, brCalls)
       ELSE /\ brCalls' = [brCalls EXCEPT ![c].state = "rejected"]
            /\ UNCHANGED <<brMessageId, brPending, brWorkers>>
    /\ UNCHANGED <<brWorker, brReady, brOutbox, brOthers>>

\* crypto-worker.js has loaded: self.postMessage({type: "ready"})
BrWorkerReady(k) ==
    /\ k \in 1..Len(brWorkers)
    /\ brWorkers[k].state = "loading"
    /\ brWorkers' = [brWorkers EXCEPT ![k].state = "live"]
    /\ brOutbox' = Append(brOutbox, [from |-> k, id |-> 0, type |-> "ready"])
    /\ UNCHANGED <<brWorker, brReady, brMessageId, brPending, brCalls, brOthers>>

\* q without its i-th element
BrRemoveAt(q, i) == SubSeq(q, 1, i - 1) \o SubSeq(q, i + 1, Len(q))

\* the worker posts the answer to one of the messages it was sent; its
\* handler is async, so the answers leave in any order
BrWorkerHandle(k, type) ==
    /\ k \in 1..Len(brWorkers)
    /\ brWorkers[k].state = "live"
    /\ \E i \in 1..Len(brWorkers[k].inbox) :
          /\ brWorkers' = [brWorkers EXCEPT ![k].inbox = BrRemoveAt(@, i)]
          /\ brOutbox' = Append(brOutbox, [from |-> k, id |-> brWorkers[k].inbox[i],
                                           type |-> type])
    /\ UNCHANGED <<brWorker, brReady, brMessageId, brPending, brCalls, brOthers>>

\* the worker raises an error event: the error listener logs it and rejects
\* the readyPromise of this worker's init(); it does not look at
\* pendingMessages
BrWorkerError(k) ==
    /\ k \in 1..Len(brWorkers)
    /\ brWorkers[k].state \in {"loading", "live"}
    /\ brWorkers' = [brWorkers EXCEPT
                        ![k].state = "crashed",
                        ![k].inbox = <<>>,
                        ![k].readyPromise = IF @ = "pending" THEN "rejected" ELSE @]
    /\ UNCHANGED <<brWorker, brReady, brMessageId, brPending, brCalls, brOutbox, brOthers>>

\* A plausible slip: the listener settles the request and leaves its entry
\* in the map.
BrOnMessageKeepsEntry ==
    /\ brOutbox # <<>>
    /\ LET m == Head(brOutbox)
       IN  IF m.type = "ready"
           THEN /\ brReady' = TRUE
                /\ brWorkers' = [brWorkers EXCEPT
                                    ![m.from].readyPromise =
                                        IF @ = "pending" THEN "resolved" ELSE @]
                /\ UNCHANGED <<brPending, brCalls>>
           ELSE IF m.id \notin brPending
           THEN UNCHANGED <<brReady, brWorkers, brPending, brCalls>>
           ELSE /\ brCalls' = [c \in 1..Len(brCalls) |->
                                  IF brCalls[c].id = m.id
                                  THEN [brCalls[c] EXCEPT
                                           !.state = IF m.type = "success"
                                                     THEN "resolved" ELSE "rejected"]
                                  ELSE brCalls[c]]
                /\ UNCHANGED <<brReady, brWorkers, brPending>>
    /\ brOutbox' = Tail(brOutbox)
    /\ UNCHANGED <<brWorker, brMessageId, brOthers>>

\* the message listener runs for the next message posted by a worker
BrOnMessage ==
    /\ brOutbox # <<>>
    /\ LET m == Head(brOutbox)
       IN  IF m.type = "ready"
           THEN /\ brReady' = TRUE
                /\ brWorkers' = [brWorkers EXCEPT
                                    ![m.from].readyPromise =
                                        IF @ = "pending" THEN "resolved" ELSE @]
                /\ UNCHANGED <<brPending, brCalls>>
           ELSE IF m.id \notin brPending
           THEN UNCHANGED <<brReady, brWorkers, brPending, brCalls>>
           ELSE /\ brPending' = brPending \ {m.id}
                /\ brCalls' = [c \in 1..Len(brCalls) |->
                                  IF brCalls[c].id = m.id
                                  THEN [brCalls[c] EXCEPT
                                           !.state = IF m.type = "success"
                                                     THEN "resolved" ELSE "rejected"]
                                  ELSE brCalls[c]]
                /\ UNCHANGED <<brReady, brWorkers>>
    /\ brOutbox' = Tail(brOutbox)
    /\ UNCHANGED <<brWorker, brMessageId, brOthers>>

\* A plausible slip: destroy() terminates the worker and forgets the
\* requests that wait for it.
BrDestroyKeepsPending ==
    /\ brWorker # 0
    /\ brWorkers' = [k \in 1..Len(brWorkers) |->
                        IF k = brWorker
                        THEN [brWorkers[k] EXCEPT !.state = "terminated", !.inbox = <<>>,
                                                  !.fresh = FALSE]
                        ELSE [brWorkers[k] EXCEPT !.fresh = FALSE]]
    /\ brWorker' = 0
    /\ brReady' = FALSE
    /\ UNCHANGED <<brMessageId, brPending, brCalls, brOutbox, brOthers>>

\* destroy() with this.worker set: terminate, worker = null, ready = false,
\* every pending request rejected with "Worker destroyed", the map cleared.
\* What the worker had posted may still reach the listener; that it does
\* not is the run in which the worker was terminated before it posted.  The
\* workers made so far are no longer fresh (ghost).
BrDestroy ==
    /\ brWorker # 0
    /\ brWorkers' = [k \in 1..Len(brWorkers) |->
                        IF k = brWorker
                        THEN [brWorkers[k] EXCEPT !.state = "terminated", !.inbox = <<>>,
                                                  !.fresh = FALSE]
                        ELSE [brWorkers[k] EXCEPT !.fresh = FALSE]]
    /\ brWorker' = 0
    /\ brReady' = FALSE
    /\ brCalls' = [c \in 1..Len(brCalls) |->
                      IF brCalls[c].id \in brPending /\ brCalls[c].state = "posted"
                      THEN [brCalls[c] EXCEPT !.state = "destroyed"]
                      ELSE brCalls[c]]
    /\ brPending' = {}
    /\ UNCHANGED <<brMessageId, brOutbox, brOthers>>

BrResume ==
    \/ \E c \in 1..MaxBrCalls : BrInitSettled(c)
    \/ \E k \in 1..MaxBrCalls : BrWorkerReady(k)
    \/ \E k \in 1..MaxBrCalls, type \in {"success", "error"} : BrWorkerHandle(k, type)
    \/ BrOnMessage

BrNext ==
    \/ BrSend
    \/ \E k \in 1..MaxBrCalls : BrWorkerError(k)
    \/ BrDestroy
    \/ BrResume

SpecBridge == BrInit /\ [][BrNext]_vars

SpecBridgeFair ==
    /\ SpecBridge
    /\ \A c \in 1..MaxBrCalls : WF_vars(BrInitSettled(c))
    /\ \A k \in 1..MaxBrCalls : WF_vars(BrWorkerReady(k))
    /\ \A k \in 1..MaxBrCalls : WF_vars(\E type \in {"success", "error"} : BrWorkerHandle(k, type))
    /\ WF_vars(BrOnMessage)

\* the request of call c was posted to a worker that has crashed since
BrStranded(c) ==
    /\ c \in 1..Len(brCalls)
    /\ brCalls[c].state = "posted"
    /\ brWorkers[brCalls[c].to].state = "crashed"

BrSettled(c) ==
    c \in 1..Len(brCalls) /\ brCalls[c].state \in {"resolved", "rejected", "destroyed"}

\* no two requests of the bridge carry the same message id
BrUniqueIds ==
    \A c, d \in 1..Len(brCalls) :
       (c # d /\ brCalls[c].id # 0) => brCalls[c].id # brCalls[d].id

\* the step in which the message listener takes a response: the request
\* with the id of the response, and no other, is settled as the response
\* says and its entry leaves the map; a response with an id that is not in
\* the map changes nothing
BrResponseStep ==
    (/\ brOutbox # <<>>
     /\ brOutbox' = Tail(brOutbox)
     /\ brWorker' = brWorker
     /\ Head(brOutbox).type # "ready") =>
        LET m == Head(brOutbox)
        IN  IF m.id \in brPending
            THEN /\ brPending' = brPending \ {m.id}
                 /\ \E c \in 1..Len(brCalls) :
                       /\ brCalls[c].id = m.id
                       /\ brCalls[c].state = "posted"
                       /\ brCalls'[c].state =
                             (IF m.type = "success" THEN "resolved" ELSE "rejected")
                 /\ \A d \in 1..Len(brCalls) :
                       brCalls[d].id # m.id => brCalls'[d] = brCalls[d]
            ELSE UNCHANGED <<brPending, brCalls, brReady, brWorkers, brMessageId>>

\* a settled request stays as it was settled
BrSettledOnce ==
    \A c \in 1..Len(brCalls) : BrSettled(c) => brCalls'[c] = brCalls[c]

\* C37: with any number of requests outstanding and responses arriving in
\* any order, every request has a message id of its own, a response settles
\* exactly the pending request with its id, once, the entry leaves the
\* pending map when the request is settled, and a response with an unknown
\* id changes nothing.
BridgeCorrelation == []BrUniqueIds /\ [][BrResponseStep /\ BrSettledOnce]_vars

\* the response to the second request was taken while the first, sent to
\* the same worker before it, was still waiting; the response to the first
\* is on its way to the listener after destroy() has rejected the request
BridgeCorrelationWitness ==
    /\ Len(brCalls) = 2
    /\ brCalls[2].state = "resolved"
    /\ brCalls[1].state = "destroyed"
    /\ brCalls[1].id < brCalls[2].id
    /\ brCalls[1].to = brCalls[2].to
    /\ brOutbox # <<>>
    /\ Head(brOutbox).id = brCalls[1].id
    /\ Head(brOutbox).id \notin brPending

\* the workers the bridge has made since the last destroy()
BrFreshWorkers == {k \in 1..Len(brWorkers) : brWorkers[k].fresh}

\* C38: a bridge makes at most one Worker between two destroy() calls, also
\* when several operations are issued before the worker has reported ready.
AtMostOneWorker == Cardinality(BrFreshWorkers) <= 1

\* the step in which destroy() runs on a bridge that has a worker: the
\* worker is terminated, every request that waits in the map is rejected
\* with "Worker destroyed", the map is empty and ready is false
BrDestroyStep ==
    (brWorker # 0 /\ brWorker' = 0) =>
        /\ brWorkers'[brWorker].state = "terminated"
        /\ \A c \in 1..Len(brCalls) :
              (brCalls[c].state = "posted" /\ brCalls[c].id \in brPending) =>
                 brCalls'[c].state = "destroyed"
        /\ brPending' = {}
        /\ ~brReady'

\* a request rejected by destroy() is not resolved later
BrDestroyedStays ==
    \A c \in 1..Len(brCalls) :
       brCalls[c].state = "destroyed" => brCalls'[c].state = "destroyed"

\* C39: destroy() on a bridge with a worker terminates the worker, rejects
\* every request that is still pending with a "Worker destroyed" error and
\* leaves the pending map empty and ready = false; no request that was
\* pending at that time is later resolved with a result.
DestroyRejectsPending == [][BrDestroyStep /\ BrDestroyedStays]_vars

\* destroy() ran with two requests waiting for the same worker: both are
\* rejected, nothing is left in the map
DestroyRejectsPendingWitness ==
    /\ brWorker = 0
    /\ ~brReady
    /\ brPending = {}
    /\ Len(brCalls) = 2
    /\ brCalls[1].state = "destroyed"
    /\ brCalls[2].state = "destroyed"
    /\ brCalls[1].to = brCalls[2].to
    /\ brWorkers[brCalls[1].to].state = "terminated"
    /\ brOutbox = <<>>
    /\ brMessageId = 2

\* C26: a request that is pending when its worker raises an error event is
\* settled in the end: the call that made it does not wait forever.
CrashSettlesPending == \A c \in 1..MaxBrCalls : BrStranded(c) ~> BrSettled(c)

(***************************************************************************)
(* BufferAccumulator.consume, asked for any number of bytes in any state   *)
(* the accumulator of SpecBuffer reaches.                                  *)
(***************************************************************************)

\* C28: consume(n) with n above the pending length throws and leaves the
\* queue and the length as they were; otherwise it returns exactly n bytes,
\* the first n pending ones, and the length drops by n.
ConsumeContract ==
    \A n \in 0..(MaxBufBytes + 1) :
       LET r == BufConsume(ThisBuffer, n)
       IN  IF n > totalLength
           THEN r.threw /\ r.buf = ThisBuffer
           ELSE /\ ~r.threw
                /\ Len(r.result) = n
                /\ r.buf.totalLength = totalLength - n
                /\ r.result \o Flatten(r.buf.chunks) = Flatten(chunks)

\* a consume that asked for too much has thrown while bytes were pending,
\* after consumes on both paths had returned bytes
ConsumeContractWitness ==
    /\ bufLast = [op |-> "consume threw", merged |-> TRUE]
    /\ totalLength > 0
    /\ Len(bufReturned) > 0

(***************************************************************************)
(* SpecTransfer: the blocks a worker-backed processStream takes from its   *)
(* BufferAccumulator and hands to bridge.encryptBlock / decryptBlock.      *)
(* A byte array is a view [buf, off, len] of a buffer; a transferred       *)
(* buffer is detached.  Every array the stream delivers has a buffer of    *)
(* its own, which may be larger than the array.                            *)
(***************************************************************************)
MaxXfBufs == 4

\* the lengths of the arrays the stream delivers, the bytes of their
\* buffers before or after them, and the block sizes asked for
XfLens == {1, 2}
XfSlacks == {0, 1}
XfBlockSizes == {1, 2, 3}

xfOthers == <<nonceVars, bufVars, codecVars, limVars, upVars, tokVars, srvVars, wrkVars,
              strVars, dlVars, brVars, rtVars, lastVars>>

XfInit ==
    /\ XfIdle
    /\ NonceIdle /\ BufIdle /\ CodecIdle /\ LimIdle /\ UpIdle /\ TokIdle /\ SrvIdle
    /\ WrkIdle /\ StIdle /\ DlIdle /\ BrIdle /\ RtIdle /\ LastIdle

\* new Uint8Array(n): an array over a new buffer of n bytes
XfNewArray(bufs, n) ==
    [bufs |-> Append(bufs, [size |-> n, detached |-> FALSE]),
     view |-> [buf |-> Len(bufs) + 1, off |-> 0, len |-> n]]

\* view.subarray(from, to)
XfSubarray(view, from, to) == [buf |-> view.buf, off |-> view.off + from, len |-> to - from]

\* consume(size), the merge loop, on views
RECURSIVE XfConsumeLoop(_, _)
XfConsumeLoop(cs, remaining) ==
    IF remaining > 0 /\ Len(cs) > 0
    THEN LET take == Min(cs[1].len, remaining)
         IN  XfConsumeLoop(IF take = cs[1].len
                              THEN Tail(cs)
                              ELSE <<XfSubarray(cs[1], take, cs[1].len)>> \o Tail(cs),
                           remaining - take)
    ELSE cs

\* consume(size) with size <= totalLength
XfConsume(cs, bufs, size) ==
    IF Len(cs) > 0 /\ cs[1].len >= size
    THEN [chunks |-> IF cs[1].len = size
                     THEN Tail(cs)
                     ELSE <<XfSubarray(cs[1], size, cs[1].len)>> \o Tail(cs),
          bufs |-> bufs,
          view |-> XfSubarray(cs[1], 0, size),
          merged |-> FALSE]
    ELSE [chunks |-> XfConsumeLoop(cs, size),
          bufs |-> XfNewArray(bufs, size).bufs,
          view |-> XfNewArray(bufs, size).view,
          merged |-> TRUE]

\* consumeAll() with totalLength > 0
XfConsumeAll(cs, bufs, total) ==
    IF Len(cs) = 1
    THEN [chunks |-> <<>>, bufs |-> bufs, view |-> cs[1], merged |-> FALSE]
    ELSE [chunks |-> <<>>,
          bufs |-> XfNewArray(bufs, total).bufs,
          view |-> XfNewArray(bufs, total).view,
          merged |-> TRUE]

\* A plausible slip: the buffer of the block is always transferred as it is.
XfIsViewOfLargerNever(view, bufs) == FALSE

\* blockData.buffer.byteLength !== blockData.byteLength
XfIsViewOfLarger(view, bufs) == bufs[view.buf].size # view.len

\* bridge.encryptBlock / decryptBlock up to postMessage: blockData.slice()
\* where the block is a view of a larger buffer, then the buffer of
\* dataToTransfer is transferred
XfHandOver(view, bufs) ==
    LET copied == XfIsViewOfLarger(view, bufs)
        made == XfNewArray(bufs, view.len)
        dataToTransfer == IF copied THEN made.view ELSE view
        bufs1 == IF copied THEN made.bufs ELSE bufs
    IN  [bufs |-> [bufs1 EXCEPT ![dataToTransfer.buf].detached = TRUE],
         copied |-> copied,
         dataToTransfer |-> dataToTransfer]

\* reader.read() delivered an array, and buffer.append(value)
XfAppend(off, len, slack) ==
    /\ Len(xfBufs) < MaxXfBufs
    /\ xfBufs' = Append(xfBufs, [size |-> off + len + slack, detached |-> FALSE])
    /\ xfChunks' = Append(xfChunks, [buf |-> Len(xfBufs) + 1, off |-> off, len |-> len])
    /\ xfTotal' = xfTotal + len
    /\ xfLast' = [op |-> "append", merged |-> FALSE, copied |-> FALSE,
                  blockData |-> <<>>, dataToTransfer |-> <<>>]
    /\ UNCHANGED xfOthers

\* one round of the block loop: a block is consumed and handed to the bridge
XfSend(r, op) ==
    /\ Len(r.bufs) < MaxXfBufs
    /\ LET h == XfHandOver(r.view, r.bufs)
       IN  /\ xfBufs' = h.bufs
           /\ xfLast' = [op |-> op, merged |-> r.merged, copied |-> h.copied,
                         blockData |-> r.view, dataToTransfer |-> h.dataToTransfer]
    /\ xfChunks' = r.chunks
    /\ xfTotal' = xfTotal - r.view.len
    /\ UNCHANGED xfOthers

\* buffer.length >= blockSize: consume(blockSize), then the bridge call
XfSendBlock(blockSize) ==
    /\ xfTotal >= blockSize
    /\ XfSend(XfConsume(xfChunks, xfBufs, blockSize), "consume")

\* done with 0 < buffer.length: consumeAll(), then the bridge call
XfSendRest ==
    /\ xfTotal > 0
    /\ XfSend(XfConsumeAll(xfChunks, xfBufs, xfTotal), "consumeAll")

XfNext ==
    \/ \E off \in XfSlacks, len \in XfLens, slack \in XfSlacks : XfAppend(off, len, slack)
    \/ \E blockSize \in XfBlockSizes : XfSendBlock(blockSize)
    \/ XfSendRest

SpecTransfer == XfInit /\ [][XfNext]_vars

\* C27: no buffer that backs pending bytes of the accumulator is detached;
\* the block handed over was copied exactly when it was a view of a larger
\* buffer, the copy has the block's length, and a buffer transferred
\* without a copy is covered by the block entirely.
TransferKeepsPending ==
    /\ \A k \in 1..Len(xfChunks) :
          xfChunks[k].len > 0 => ~xfBufs[xfChunks[k].buf].detached
    /\ xfLast.op \in {"consume", "consumeAll"} =>
          LET b == xfLast.blockData
              d == xfLast.dataToTransfer
          IN  /\ xfLast.copied = (b.off # 0 \/ b.len # xfBufs[b.buf].size)
              /\ xfBufs[d.buf].detached
              /\ d.off = 0 /\ d.len = b.len /\ xfBufs[d.buf].size = b.len
              /\ xfLast.copied => (d.buf # b.buf /\ ~xfBufs[b.buf].detached)
              /\ ~xfLast.copied => d = b

\* a block that covered its buffer was transferred without a copy while
\* other bytes were pending, some of them in a view of a partly consumed buffer
TransferWitness ==
    /\ xfLast.op = "consume"
    /\ ~xfLast.copied
    /\ ~xfLast.merged
    /\ xfTotal > 0
    /\ \E k \in 1..Len(xfChunks) : xfChunks[k].off > 0

(***************************************************************************)
(* SpecRetry: the two retry helpers, withRetry(fn, retries, delayMs) of    *)
(* the client and retry(fn, {maxRetries, baseDelayMs}) of the server, the  *)
(* latter as handleUploadChunkComplete calls it around completeUpload.     *)
(* The k-th call of fn returns the value k or throws the error k.          *)
(* SpecRetryFair adds that a call of fn settles and a timer fires.         *)
(***************************************************************************)
MaxRtLimit == 4

\* the delays given: RETRY_DELAY_MS of the client, baseDelayMs of the server
RtDelays == {100, 1000}

rtOthers == <<nonceVars, bufVars, codecVars, limVars, upVars, tokVars, srvVars, wrkVars,
              strVars, dlVars, brVars, xfVars, lastVars>>

RtInit ==
    /\ RtIdle
    /\ NonceIdle /\ BufIdle /\ CodecIdle /\ LimIdle /\ UpIdle /\ TokIdle /\ SrvIdle
    /\ WrkIdle /\ StIdle /\ DlIdle /\ BrIdle /\ XfIdle /\ LastIdle

\* A plausible slip: the loop of withRetry with the test of retry.
RtLoopGoesOnStrict(fn, k, limit) == k < limit

\* the loop test: attempt <= retries in withRetry, i < maxRetries in retry
RtLoopGoesOn(fn, k, limit) == IF fn = "withRetry" THEN k <= limit ELSE k < limit

\* the test before the delay: attempt < retries, i < maxRetries - 1
RtWaitsAfter(fn, k, limit) == IF fn = "withRetry" THEN k < limit ELSE k < limit - 1

\* delayMs * Math.pow(2, attempt)
RtDelay(delayMs, k) == delayMs * 2 ^ k

\* the helper leaves by throw lastError; handleUploadChunkComplete catches
\* it and answers 500
RtThrow ==
    /\ rtPc' = "threw"
    /\ rtThrown' = rtLastError'
    /\ rtAnswer' = IF rtFn = "retry" THEN 500 ELSE rtAnswer

\* the loop test with the loop variable at k: fn is called, or the loop ends
RtLoop(fn, k, limit) ==
    IF RtLoopGoesOn(fn, k, limit)
    THEN /\ rtPc' = "calling"
         /\ rtCalls' = rtCalls + 1
         /\ UNCHANGED <<rtThrown, rtAnswer>>
    ELSE /\ RtThrow
         /\ UNCHANGED rtCalls

\* the helper is called
RtStart(fn, limit, delayMs) ==
    /\ rtPc = "idle"
    /\ rtFn' = fn
    /\ rtLimit' = limit
    /\ rtDelayMs' = delayMs
    /\ rtI' = 0
    /\ UNCHANGED <<rtLastError, rtWaits, rtValue, rtOthers>>
    /\ RtLoop(fn, 0, limit)

\* await fn() settles
RtFnSettles(ok) ==
    /\ rtPc = "calling"
    /\ IF ok
       THEN /\ rtPc' = "returned"
            /\ rtValue' = rtCalls
            /\ rtAnswer' = IF rtFn = "retry" THEN 200 ELSE rtAnswer
            /\ UNCHANGED <<rtLastError, rtI, rtCalls, rtThrown>>
       ELSE /\ rtLastError' = rtCalls
            /\ UNCHANGED rtValue
            /\ IF RtWaitsAfter(rtFn, rtI, rtLimit)
               THEN /\ rtPc' = "waiting"
                    /\ UNCHANGED <<rtI, rtCalls, rtThrown, rtAnswer>>
               ELSE /\ rtI' = rtI + 1
                    /\ RtLoop(rtFn, rtI + 1, rtLimit)
    /\ UNCHANGED <<rtFn, rtLimit, rtDelayMs, rtWaits, rtOthers>>

\* the timer of the delay fires
RtTimer ==
    /\ rtPc = "waiting"
    /\ rtWaits' = Append(rtWaits, RtDelay(rtDelayMs, rtI))
    /\ rtI' = rtI + 1
    /\ UNCHANGED <<rtFn, rtLimit, rtDelayMs, rtLastError, rtValue, rtOthers>>
    /\ RtLoop(rtFn, rtI + 1, rtLimit)

RtNext ==
    \/ \E fn \in {"withRetry", "retry"}, limit \in 0..MaxRtLimit, delayMs \in RtDelays :
          RtStart(fn, limit, delayMs)
    \/ \E ok \in BOOLEAN : RtFnSettles(ok)
    \/ RtTimer

SpecRetry == RtInit /\ [][RtNext]_vars

SpecRetryFair ==
    /\ SpecRetry
    /\ WF_vars(\E ok \in BOOLEAN : RtFnSettles(ok))
    /\ WF_vars(RtTimer)

\* the delays waited so far are delayMs, 2 delayMs, 4 delayMs, ...
RtBackoff == rtWaits = [k \in 1..Len(rtWaits) |-> rtDelayMs * 2 ^ (k - 1)]

\* withRetry while it runs and when it has settled
RtWithRetryInv ==
    rtFn = "withRetry" =>
       /\ rtCalls <= rtLimit + 1
       /\ RtBackoff
       /\ Len(rtWaits) = IF rtPc = "waiting" THEN rtCalls - 1 ELSE
                         IF rtPc = "threw" THEN rtLimit ELSE rtCalls - 1
       /\ rtPc = "waiting" => rtLastError = rtCalls
       /\ rtPc = "returned" => rtValue = rtCalls
       /\ rtPc = "threw" => (rtCalls = rtLimit + 1 /\ rtThrown = rtCalls)

ServerRetryContract ==
    rtFn = "retry" =>
       /\ RtBackoff
       /\ rtPc = "threw" => /\ rtCalls = rtLimit + 1
                            /\ rtThrown = rtCalls
                            /\ rtAnswer = 500
       /\ rtAnswer = 200 => (rtPc = "returned" /\ rtValue = rtCalls)

(***************************************************************************)
(* SpecAgree: one FileUploader.upload() against the upload endpoints.  The *)
(* uploader counts its chunks with the chunk size of its serverConfig, the *)
(* server counts them with CHUNK_SIZE and signs its count into the token.  *)
(***************************************************************************)
\* file.size: empty, one byte, one server chunk, a byte more, two and a
\* half, more than MAX_FILE_SIZE
AgFileSizes == {Big(0, 0), Big(0, 1), Big(10, 0), Big(10, 1), Big(25, 0), Big(20 * 1024, 1)}

\* serverConfig.chunkSize: what /api/config answered while CHUNK_SIZE was
\* smaller, what it answers now, and the default of App.svelte that stays
\* when the request for the configuration failed
AgChunkSizes == {Big(5, 0), SRV_CHUNK_SIZE, Big(128, 0)}

agOthers == <<nonceVars, bufVars, codecVars, limVars, upVars, tokVars, srvVars, wrkVars,
              strVars, dlVars, brVars, xfVars, rtVars, gcVars>>

AgInit ==
    /\ agPc = "init"
    /\ agParams \in [fileSize : AgFileSizes, chunkSize : AgChunkSizes]
    /\ agTotalChunks = BigCeilDiv(agParams.fileSize, agParams.chunkSize)
    /\ agIssued = <<>>
    /\ agI = 0
    /\ agAttempt = 0
    /\ agChunkIds = <<>>
    /\ agKv = <<>>
    /\ agLast = NoRequest
    /\ NonceIdle /\ BufIdle /\ CodecIdle /\ LimIdle /\ UpIdle /\ TokIdle /\ SrvIdle
    /\ WrkIdle /\ StIdle /\ DlIdle /\ BrIdle /\ XfIdle /\ RtIdle /\ GcIdle

\* the token the uploader sends is verified for the fileId it sends
AgVerified == VerifyUploadToken(SrvSecret, agIssued.fileId, agIssued.token)

\* _initUpload against handleUploadStart; answered = FALSE: the fetch failed
AgInitUpload(answered) ==
    /\ agPc = "init"
    /\ LET status == IF answered THEN UploadStartStatus(agParams.fileSize) ELSE 0
           fileId == MakeFileId(SrvHour, RandomPartList[1])
           folderId == CreateFolder(fileId)
           nChunks == BigCeilDiv(agParams.fileSize, SRV_CHUNK_SIZE)
       IN  /\ agLast' = [handler |-> "start", status |-> status]
           /\ IF status = 200
              THEN /\ agIssued' = [fileId |-> fileId, folderId |-> folderId,
                                   totalChunks |-> nChunks,
                                   token |-> SignUploadPayload(SrvSecret, fileId, folderId,
                                                               nChunks)]
                   /\ agPc' = IF 0 < agTotalChunks THEN "spec" ELSE "finalize"
              ELSE /\ agPc' = "rejected"
                   /\ UNCHANGED agIssued
    /\ UNCHANGED <<agParams, agTotalChunks, agI, agAttempt, agChunkIds, agKv>>
    /\ UNCHANGED agOthers

\* an attempt throws: the catch block of withRetry
AgCatch(handler, status) ==
    /\ agLast' = [handler |-> handler, status |-> status]
    /\ agPc' = IF ShouldRetry(status, agAttempt) THEN "backoff" ELSE "rejected"
    /\ UNCHANGED <<agParams, agTotalChunks, agIssued, agI, agAttempt, agChunkIds, agKv>>
    /\ UNCHANGED agOthers

\* _getUploadSpec against handleUploadChunk
AgGetUploadSpec(answered) ==
    /\ agPc = "spec"
    /\ LET req == [has |-> {"fileId", "chunkIndex", "chunkSize"}, fileId |-> agIssued.fileId,
                   chunkIndex |-> agI]
           status == IF answered THEN HandleUploadChunk(req, AgVerified, TRUE).status ELSE 0
       IN  IF status = 200
           THEN /\ agPc' = "transfer"
                /\ agLast' = [handler |-> "chunk", status |-> 200]
                /\ UNCHANGED <<agParams, agTotalChunks, agIssued, agI, agAttempt, agChunkIds,
                               agKv>>
                /\ UNCHANGED agOthers
           ELSE AgCatch("chunk", status)

\* _uploadWithXHR to the storage backend
AgTransfer(ok) ==
    /\ agPc = "transfer"
    /\ IF ok
       THEN /\ agPc' = "notify"
            /\ UNCHANGED <<agParams, agTotalChunks, agIssued, agI, agAttempt, agChunkIds,
                           agKv, agLast>>
            /\ UNCHANGED agOthers
       ELSE AgCatch("storage", 0)

\* _notifyChunkComplete against handleUploadChunkComplete; answered ok,
\* _uploadChunk returns the chunkFileId and upload() pushes it
AgNotifyChunkComplete(answered) ==
    /\ agPc = "notify"
    /\ LET req == [has |-> {"fileId", "chunkIndex", "chunkFileId"},
                   fileId |-> agIssued.fileId, chunkIndex |-> agI]
           status == IF answered THEN HandleUploadChunkComplete(req, AgVerified, 0).status
                     ELSE 0
       IN  IF status = 200
           THEN /\ agChunkIds' = Append(agChunkIds,
                                        [index |-> agI, fileId |-> <<agI, agAttempt>>])
                /\ agI' = agI + 1
                /\ agAttempt' = 0
                /\ agPc' = IF agI + 1 < agTotalChunks THEN "spec" ELSE "finalize"
                /\ agLast' = [handler |-> "notice", status |-> 200]
                /\ UNCHANGED <<agParams, agTotalChunks, agIssued, agKv>>
                /\ UNCHANGED agOthers
           ELSE AgCatch("notice", status)

\* the delay of withRetry has passed: the next attempt
AgBackoffElapsed ==
    /\ agPc = "backoff"
    /\ agAttempt' = agAttempt + 1
    /\ agPc' = "spec"
    /\ UNCHANGED <<agParams, agTotalChunks, agIssued, agI, agChunkIds, agKv, agLast>>
    /\ UNCHANGED agOthers

\* _finalizeUpload against handleUploadComplete; the request can fail on
\* its way to the server, and the answer on its way back
AgFinalizeUpload(outcome) ==
    /\ agPc = "finalize"
    /\ LET fileMeta == [size |-> agParams.fileSize, totalChunks |-> agTotalChunks,
                        chunkSize |-> agParams.chunkSize]
           req == [has |-> {"fileId", "metadata", "chunkIds"}, fileId |-> agIssued.fileId,
                   metadata |-> fileMeta, chunkIds |-> agChunkIds]
           answer == IF outcome = "requestLost" THEN Answer(0, <<>>, <<>>)
                     ELSE HandleUploadComplete(req, AgVerified)
           status == IF outcome = "answered" THEN answer.status ELSE 0
       IN  /\ agKv' = KvPut(agKv, answer.puts)
           /\ agLast' = [handler |-> "complete", status |-> status]
           /\ agPc' = IF status = 200 THEN "done" ELSE "rejected"
    /\ UNCHANGED <<agParams, agTotalChunks, agIssued, agI, agAttempt, agChunkIds>>
    /\ UNCHANGED agOthers

AgNext ==
    \/ \E answered \in BOOLEAN : AgInitUpload(answered)
    \/ \E answered \in BOOLEAN : AgGetUploadSpec(answered)
    \/ \E ok \in BOOLEAN : AgTransfer(ok)
    \/ \E answered \in BOOLEAN : AgNotifyChunkComplete(answered)
    \/ AgBackoffElapsed
    \/ \E outcome \in {"answered", "requestLost", "answerLost"} : AgFinalizeUpload(outcome)

SpecAgree == AgInit /\ [][AgNext]_vars

\* C35: an upload reaches Done, its metadata persisted, only if the
\* totalChunks the uploader computed, ceil(file.size / serverConfig.chunkSize),
\* equals the totalChunks the server signed into the token; when they differ
\* no metadata is ever persisted for the fileId.
DoneOnlyIfCountsAgree ==
    /\ agPc = "done" =>
          /\ BigCeilDiv(agParams.fileSize, agParams.chunkSize) = AgVerified.totalChunks
          /\ GetMetadataKey(agIssued.fileId) \in DOMAIN agKv
    /\ agKv # <<>> =>
          BigCeilDiv(agParams.fileSize, agParams.chunkSize) = AgVerified.totalChunks
    /\ (agIssued # <<>> /\ agTotalChunks # agIssued.totalChunks) => agKv = <<>>

\* the uploader counted one chunk of 128 MiB where the server counted three:
\* the chunk was uploaded and confirmed, and the finalize request refused
DoneOnlyIfCountsAgreeWitness ==
    /\ agPc = "rejected"
    /\ agLast = [handler |-> "complete", status |-> 400]
    /\ agTotalChunks = 1
    /\ agIssued.totalChunks = 3
    /\ Len(agChunkIds) = 1
    /\ agKv = <<>>

(***************************************************************************)
(* SpecGC: one run of handleGC over a metadata store of a few files.       *)
(* Times are counted in seconds, a thousandth of the code's milliseconds,  *)
(* so that today's dates fit the integers of the checker; every time of    *)
(* the model is a whole second.  What is stored under a key is the text a  *)
(* client had persisted, so its createdAt can be absent, a number or a     *)
(* string that is no number; a text can also be empty or no JSON at all.   *)
(***************************************************************************)
MaxGcFiles == 2

\* the hour in which handleUploadStart issues ids during the run:
\* Math.floor(Date.now() / 3600000) + 1
GcHour == SrvHour

\* Date.now() of the run, half an hour into that hour
GcNow == (GcHour - 1) * 3600 + 1800

\* 24 * 60 * 60 * 1000 milliseconds
GcDayMs == 86400

\* ts * 1000 milliseconds
GcSecondsToMs(ts) == ts

DEFAULT_EXPIRY_DAYS == 7

\* values of metadata.createdAt, and of the local createdAt
GcAbsent == [kind |-> "absent"]
GcNumber(n) == [kind |-> "number", n |-> n]
GcString(str) == [kind |-> "string", str |-> str]

\* !createdAt
GcFalsy(v) ==
    \/ v.kind = "absent"
    \/ v.kind = "number" /\ (v.n = 0 \/ v.n = NaN)
    \/ v.kind = "string" /\ v.str = <<>>

\* the number JavaScript compares in createdAt > expiryThreshold: a string
\* that is not numeric compares as NaN
GcToNumber(v) ==
    IF v.kind = "number" THEN v.n
    ELSE IF v.kind = "string" /\ v.str # <<>> /\ \A i \in 1..Len(v.str) : IsDigit(v.str[i])
         THEN DigitsValue(v.str, 0)
    ELSE NaN

\* a > b of JavaScript numbers: false when either is NaN
JsGreater(a, b) == a # NaN /\ b # NaN /\ a > b

\* key.replace("metadata:", ""), for a key listed under that prefix
GcFileIdOf(key) ==
    IF IsPrefix(MetadataPrefix, key)
    THEN SubSeq(key, Len(MetadataPrefix) + 1, Len(key))
    ELSE key

\* parseFileIdTimestamp: null (here absent) without a dash or a leading number
ParseFileIdTimestamp(fileId) ==
    IF fileId = <<>> THEN GcAbsent
    ELSE LET parts == Split(fileId, Chr.minus)
         IN  IF Len(parts) < 2 THEN GcAbsent
             ELSE IF ParseInt(Part(parts, 1)) = NaN THEN GcAbsent
             ELSE GcNumber(GcSecondsToMs(ParseInt(Part(parts, 1))))

\* expiryDaysStr ? parseInt(expiryDaysStr, 10) : DEFAULT_EXPIRY_DAYS
GcExpiryDays(expiryDaysStr) ==
    IF Falsy(expiryDaysStr) THEN DEFAULT_EXPIRY_DAYS ELSE ParseInt(expiryDaysStr)

\* Date.now() - expiryDays * 24 * 60 * 60 * 1000
GcExpiryThreshold(expiryDaysStr) ==
    IF GcExpiryDays(expiryDaysStr) = NaN THEN NaN
    ELSE GcNow - GcExpiryDays(expiryDaysStr) * GcDayMs

\* let createdAt = metadata.createdAt; if (!createdAt) createdAt = parseFileIdTimestamp(fileId)
GcCreatedAt(metadata, fileId) ==
    IF GcFalsy(metadata.createdAt) THEN ParseFileIdTimestamp(fileId) ELSE metadata.createdAt

\* if (!createdAt || createdAt > expiryThreshold) continue
GcSkips(createdAt, expiryThreshold) ==
    GcFalsy(createdAt) \/ JsGreater(GcToNumber(createdAt), expiryThreshold)

\* the ids deleteStoredFile passes to storage.deleteFile, in order
GcIdsToDelete(metadata, supportsFolderDelete) ==
    IF supportsFolderDelete
    THEN IF metadata.folderId = Undefined THEN <<>> ELSE <<metadata.folderId>>
    ELSE LET withId == SelectSeq(metadata.chunkIds, LAMBDA c : c.fileId # Undefined)
         IN  [k \in 1..Len(withId) |-> withId[k].fileId]

\* what a successful storage.deleteFile(id) takes out of the backend: the
\* object, and with a folder what it holds
GcTakenOut(id, metadata) ==
    IF id = metadata.folderId
    THEN {id} \union {metadata.chunkIds[k].fileId : k \in 1..Len(metadata.chunkIds)}
    ELSE {id}

\* deleteStoredFile; failAt = the call of deleteFile that throws, 0 for none
DeleteStoredFile(metadata, supportsFolderDelete, stored, failAt) ==
    LET ids == GcIdsToDelete(metadata, supportsFolderDelete)
        done == IF failAt \in 1..Len(ids) THEN failAt - 1 ELSE Len(ids)
        gone == UNION {GcTakenOut(ids[k], metadata) : k \in 1..done}
    IN  [threw |-> failAt \in 1..Len(ids), stored |-> stored \ gone,
         removed |-> gone \intersect stored, ids |-> ids]

\* the body of the loop of handleGC for one key; fault = the call that
\* throws: "get", "delete1", "delete2", "kvDelete", or "none"
GcProcessKey(key, kv, stored, config, fault) ==
    LET fileId == GcFileIdOf(key)
        text == kv[key]
        skipped(createdAt) ==
            [kv |-> kv, stored |-> stored, deleted |-> 0, error |-> FALSE,
             entry |-> [key |-> key, outcome |-> "skipped", createdAt |-> createdAt,
                        kvDeleted |-> FALSE, storageThrew |-> FALSE, removed |-> {},
                        ids |-> <<>>]]
        failed(createdAt, del) ==
            [kv |-> kv, stored |-> del.stored, deleted |-> 0, error |-> TRUE,
             entry |-> [key |-> key, outcome |-> "error", createdAt |-> createdAt,
                        kvDeleted |-> FALSE, storageThrew |-> del.threw,
                        removed |-> del.removed, ids |-> del.ids]]
        nothing == [threw |-> FALSE, stored |-> stored, removed |-> {}, ids |-> <<>>]
    IN  IF fault = "get" THEN failed(GcAbsent, nothing)
        ELSE IF text.kind = "empty" THEN skipped(GcAbsent)
        ELSE IF text.kind = "broken" THEN failed(GcAbsent, nothing)
        ELSE LET createdAt == GcCreatedAt(text, fileId)
             IN  IF GcSkips(createdAt, GcExpiryThreshold(config.expiryDaysStr))
                 THEN skipped(createdAt)
                 ELSE LET del == DeleteStoredFile(text, config.supportsFolderDelete, stored,
                                                  CASE fault = "delete1" -> 1
                                                    [] fault = "delete2" -> 2
                                                    [] OTHER -> 0)
                      IN  IF del.threw \/ fault = "kvDelete" THEN failed(createdAt, del)
                          ELSE [kv |-> [k \in DOMAIN kv \ {key} |-> kv[k]],
                                stored |-> del.stored, deleted |-> 1, error |-> FALSE,
                                entry |-> [key |-> key, outcome |-> "deleted",
                                           createdAt |-> createdAt, kvDeleted |-> TRUE,
                                           storageThrew |-> FALSE, removed |-> del.removed,
                                           ids |-> del.ids]]

\* the keys of the store, as getMetadataKey makes them: of a file id that
\* handleUploadStart issued in the hour of the run, of one it issued in the
\* earlier hour of HourSamples (months before), and of an id of another form
GcKeyList ==
    <<GetMetadataKey(MakeFileId(GcHour, RandomPartList[1])),
      GetMetadataKey(MakeFileId(CHOOSE h \in HourSamples : h # GcHour, RandomPartList[2])),
      GetMetadataKey(<<120, 55, Chr.minus, 99>>)>>

GcKeySamples == {GcKeyList[f] : f \in 1..Len(GcKeyList)}

GcFileNo(key) == CHOOSE f \in 1..Len(GcKeyList) : GcKeyList[f] = key

\* the objects of file f in the backend
GcFolder(f) == <<f, 0>>
GcChunk(f, i) == <<f, i>>
GcObjects(f) == {GcFolder(f), GcChunk(f, 1), GcChunk(f, 2)}

GcJson(f, createdAt, folderId) ==
    [kind |-> "json", createdAt |-> createdAt, folderId |-> folderId,
     chunkIds |-> <<[index |-> 0, fileId |-> GcChunk(f, 1)],
                    [index |-> 1, fileId |-> GcChunk(f, 2)]>>]

\* what can be stored for file f: metadata without createdAt, created long
\* ago, created just now, with a createdAt that is no number, without a
\* folderId; an empty text; a text that is no JSON
GcTexts(f) ==
    {GcJson(f, c, GcFolder(f)) :
        c \in {GcAbsent, GcNumber(1000), GcNumber(GcNow), GcString(<<115, 111, 111, 110>>)}}
    \union {GcJson(f, GcNumber(1000), Undefined), [kind |-> "empty"], [kind |-> "broken"]}

\* GC_EXPIRY_DAYS: not set, "1", "x"
GcExpirySettings == {Undefined, <<49>>, <<120>>}

\* the Authorization header against GC_SECRET, as verifyGCToken answers it
GcAuthStatus(auth) ==
    CASE auth = "noHeader" -> 401
      [] auth = "noSecret" -> 500
      [] auth = "wrongToken" -> 403
      [] OTHER -> 200

gcOthers == <<nonceVars, bufVars, codecVars, limVars, upVars, tokVars, srvVars, wrkVars,
              strVars, dlVars, brVars, xfVars, rtVars, agVars>>

GcInit ==
    /\ gcPc = "request"
    /\ gcConfig \in [expiryDaysStr : GcExpirySettings, supportsFolderDelete : BOOLEAN]
    /\ \E keys \in SUBSET GcKeySamples :
          /\ Cardinality(keys) <= MaxGcFiles
          /\ gcKv \in {kv \in [keys -> UNION {GcTexts(f) : f \in 1..Len(GcKeyList)}] :
                          \A k \in keys : kv[k] \in GcTexts(GcFileNo(k))}
    /\ gcStored = UNION {GcObjects(GcFileNo(k)) : k \in DOMAIN gcKv}
    /\ gcKeys = <<>>
    /\ gcScanned = 0
    /\ gcDeleted = 0
    /\ gcErrors = <<>>
    /\ gcLog = <<>>
    /\ NonceIdle /\ BufIdle /\ CodecIdle /\ LimIdle /\ UpIdle /\ TokIdle /\ SrvIdle
    /\ WrkIdle /\ StIdle /\ DlIdle /\ BrIdle /\ XfIdle /\ RtIdle /\ AgIdle

\* handleGC up to the listing: verifyGCToken, the settings, kv.list.  A
\* refused request and a listing that throws end the run with no key read.
GcStart(auth, listThrows) ==
    /\ gcPc = "request"
    /\ IF GcAuthStatus(auth) # 200
       THEN gcPc' = "refused" /\ gcKeys' = <<>>
       ELSE IF listThrows
       THEN gcPc' = "failed" /\ gcKeys' = <<>>
       ELSE /\ gcPc' = "scan"
            /\ \E order \in [1..Cardinality(DOMAIN gcKv) -> DOMAIN gcKv] :
                  /\ \A i, j \in DOMAIN order : i # j => order[i] # order[j]
                  /\ gcKeys' = order
    /\ UNCHANGED <<gcConfig, gcKv, gcStored, gcScanned, gcDeleted, gcErrors, gcLog>>
    /\ UNCHANGED gcOthers

\* one turn of for (const key of keys)
GcLoopBody(fault) ==
    /\ gcPc = "scan"
    /\ gcKeys # <<>>
    /\ LET r == GcProcessKey(Head(gcKeys), gcKv, gcStored, gcConfig, fault)
       IN  /\ gcKv' = r.kv
           /\ gcStored' = r.stored
           /\ gcScanned' = gcScanned + 1
           /\ gcDeleted' = gcDeleted + r.deleted
           /\ gcErrors' = IF r.error THEN Append(gcErrors, GcFileIdOf(Head(gcKeys)))
                          ELSE gcErrors
           /\ gcLog' = Append(gcLog, r.entry)
    /\ gcKeys' = Tail(gcKeys)
    /\ UNCHANGED <<gcPc, gcConfig>>
    /\ UNCHANGED gcOthers

\* return c.json({ scanned, deleted, ... }); of a threshold that is NaN,
\* new Date(expiryThreshold).toISOString() throws a RangeError instead
GcAnswer ==
    /\ gcPc = "scan"
    /\ gcKeys = <<>>
    /\ gcPc' = IF GcExpiryThreshold(gcConfig.expiryDaysStr) = NaN THEN "failed" ELSE "answered"
    /\ UNCHANGED <<gcConfig, gcKv, gcStored, gcKeys, gcScanned, gcDeleted, gcErrors, gcLog>>
    /\ UNCHANGED gcOthers

GcFaults == {"none", "get", "delete1", "delete2", "kvDelete"}

GcNext ==
    \/ \E auth \in {"ok", "noHeader", "noSecret", "wrongToken"}, listThrows \in BOOLEAN :
          GcStart(auth, listThrows)
    \/ \E fault \in GcFaults : GcLoopBody(fault)
    \/ GcAnswer

SpecGC == GcInit /\ [][GcNext]_vars

GcEntries == {gcLog[i] : i \in 1..Len(gcLog)}

\* a creation time is determined when it is a number
GcDetermined(createdAt) == createdAt.kind = "number" /\ createdAt.n # NaN

\* the metadata entry goes only after deleteStoredFile returned without a
\* throw and every object it had to delete is gone; an entry that was not
\* deleted is still in the store
GcMetadataAfterObjects ==
    \A e \in GcEntries :
        /\ e.kvDeleted =>
              /\ ~e.storageThrew
              /\ \A k \in 1..Len(e.ids) : e.ids[k] \notin gcStored
        /\ e.kvDeleted <=> e.key \notin DOMAIN gcKv

\* nothing of a file goes (metadata or objects) unless its creation time is
\* determined and not later than the threshold
GcOnlyExpiredDeleted ==
    \A e \in GcEntries :
        (e.kvDeleted \/ e.removed # {}) =>
            /\ GcDetermined(e.createdAt)
            /\ ~JsGreater(e.createdAt.n, GcExpiryThreshold(gcConfig.expiryDaysStr))
            /\ GcExpiryThreshold(gcConfig.expiryDaysStr) # NaN

\* the same for the files whose createdAt is not a string, under a numeric
\* GC_EXPIRY_DAYS
GcOnlyExpiredDeletedOfNumbers ==
    \A e \in GcEntries :
        (/\ e.kvDeleted \/ e.removed # {}
         /\ e.createdAt.kind # "string"
         /\ GcExpiryThreshold(gcConfig.expiryDaysStr) # NaN) =>
            /\ GcDetermined(e.createdAt)
            /\ e.createdAt.n <= GcExpiryThreshold(gcConfig.expiryDaysStr)

\* every key read leaves one entry, a failure one error, and the answer
\* comes only after the last listed key
GcFailuresRecorded ==
    /\ gcScanned = Len(gcLog)
    /\ Len(gcErrors) = Cardinality({i \in 1..Len(gcLog) : gcLog[i].outcome = "error"})
    /\ gcDeleted = Cardinality({i \in 1..Len(gcLog) : gcLog[i].outcome = "deleted"})
    /\ gcPc = "scan" => gcScanned + Len(gcKeys) = Cardinality({e.key : e \in GcEntries} \union DOMAIN gcKv)
    /\ gcPc = "answered" =>
          /\ gcKeys = <<>>
          /\ \A k \in DOMAIN gcKv : \E e \in GcEntries : e.key = k

\* a failure on the first key was followed by the reading of a later one
GcGoesOnAfterFailure ==
    /\ gcPc = "answered"
    /\ Len(gcLog) = 2
    /\ gcLog[1].outcome = "error" /\ gcLog[1].storageThrew
    /\ gcLog[2].outcome = "deleted"

\* C40: garbage collection deletes the metadata entry of a file only after
\* the deletion of its stored objects completed without error, never deletes
\* a file whose createdAt is later than the expiry threshold or cannot be
\* determined, and records a failure on one file in the error list and goes
\* on with the remaining files.
GcContract ==
    /\ GcMetadataAfterObjects
    /\ GcOnlyExpiredDeleted
    /\ GcFailuresRecorded

====
